---- MODULE Spec2Model ----
(***************************************************************************)
(* The haven bridge: the WebSocket <-> agent-subprocess bridge with the   *)
(* durable session store (sessions, updates, pending_requests tables).     *)
(* Every handler of the bridge is one action; the agent subprocesses and   *)
(* the browser clients are the environment.                                *)
(***************************************************************************)
EXTENDS Integers, Sequences, FiniteSets, TLC

\* ---------------------------------------------------------------- bounds
\* events per session
MaxUpdates == 2
\* client frames handled in one run, over all connections (session/new, which
\* the pool of session ids bounds, is not counted)
MaxRequests == 2
\* bytes an agent writes to its stdout in the streams that are followed
MaxStream == 4

SessionIds == {1, 2}
\* the pool generateSessionId draws from when one session is followed
OneSession == {1}
Clients == {"ws1", "ws2"}
OneClient == {"ws1"}
\* the ids clients put on their requests
RequestIds == {1}

\* a request whose params carry no sessionId
MissingSid == 0
SidParams == SessionIds \cup {MissingSid}

NULL == "NULL"

\* ------------------------------------------------------ JSON-RPC ids
\* string | number.  The tag keeps 1 and "1" apart, as a JS Map does.  v is
\* the number, or the number a string of digits spells; the strings that are
\* not digits (the handshake ids) are coded by negative values.
NumId(v) == [t |-> "num", v |-> v]
StrId(v) == [t |-> "str", v |-> v]

\* String(msg.id)
String(id) == StrId(id.v)

\* /^\d+$/.test(requestId) ? parseInt(requestId, 10) : requestId
OriginalId(requestId) ==
  IF requestId.v >= 0 THEN NumId(requestId.v) ELSE requestId

\* `init_${sessionId}` and `newsession_${sessionId}`
InitId(s) == StrId(1 - 2 * s)
NewSessionId(s) == StrId(0 - 2 * s)

\* ids an agent puts on its own requests
AgentReqIds == {NumId(1)}
\* ... with the ids of an agent that uses strings: "1" and a string that is
\* not made of digits
AnyAgentReqIds == AgentReqIds \cup {StrId(1), StrId(-9)}
\* requestId values a client passes to session/respond, or uses as the id of
\* a raw JSON-RPC reply: the id it saw in session/request (raw) or in
\* session/get (stringified)
RespondIds == {NumId(1), StrId(1)}

AgentSessionIds == {"agent_session_1"}
UpdateTypes == {"agent_message_chunk"}

\* JSON.stringify / JSON.parse of a payload object
Stringify(payload) == <<"json", payload>>
Parse(text) == text[2]

VARIABLES
  sessions,             \* table sessions: id -> row
  updates,              \* table updates: set of rows
  pendingRequests,      \* table pending_requests: set of rows
  agentProcesses,       \* Map sessionId -> AgentProcess: the registered ids
  pendingInit,          \* per session: ids of the handshake requests with a handler
  sessionClients,       \* Map sessionId -> Set<WebSocket>
  pendingAgentRequests, \* Map id -> sessionId of the agent that asked
  proc,                 \* per session: the subprocess and AgentConnection.process
  handshake,            \* per session: position of initializeAgentSession
  agentIn,              \* per session: frames written to the agent's stdin (a bag)
  agentOut,             \* per session: set of frames the agent has emitted
  promptWaiters,        \* suspended handleSessionPrompt calls (wait loop)
  readyState,           \* per client: WebSocket.readyState
  handled,              \* client frames handled so far
  prompts,              \* the session/prompt calls past validation, and their outcome
  sessionStates,        \* buffered revision: Map sessionId -> SessionState
  sent,                 \* per client: frames the last step sent on its socket
  stdout,               \* AgentConnection: the bytes an agent writes to its stdout
  offset,               \* AgentConnection: how many of them reader.read() has returned
  decoder,              \* AgentConnection: bytes the TextDecoder holds back
  buffer,               \* AgentConnection.buffer
  messages              \* AgentConnection: the calls of onMessage, in order

vars == <<sessions, updates, pendingRequests, agentProcesses, pendingInit,
          sessionClients, pendingAgentRequests, proc, handshake, agentIn,
          agentOut, promptWaiters, readyState, handled, prompts, sessionStates,
          sent, stdout, offset, decoder, buffer, messages>>

\* the state of the bridge ...
bridge == <<sessions, updates, pendingRequests, agentProcesses, pendingInit,
            sessionClients, pendingAgentRequests, proc, handshake, agentIn,
            agentOut, promptWaiters, readyState, handled, prompts, sessionStates,
            sent>>

\* ... and of the reader of one agent's stdout
reader == <<stdout, offset, decoder, buffer, messages>>

\* ------------------------------------------------------------ db.ts
Row(s) == sessions[s]

SessionsCreate(tbl, s) ==
  [x \in DOMAIN tbl \cup {s} |->
     IF x = s
       THEN [status |-> "initializing", agent_session_id |-> NULL,
             exit_reason |-> NULL, archived |-> FALSE]
       ELSE tbl[x]]

\* an exit that also forgets the agent's session
SetExitedClearing(tbl, s, reason) ==
  [x \in DOMAIN tbl |->
     IF x = s THEN [tbl[x] EXCEPT !.status = "exited", !.exit_reason = reason,
                                  !.agent_session_id = NULL]
     ELSE tbl[x]]

\* the statement run with its two arguments swapped: no row has that id
SetStatusSwapped(tbl, s, status) == tbl

\* UPDATE ... WHERE id = ?: no row, no change
SetStatus(tbl, s, status) ==
  [x \in DOMAIN tbl |-> IF x = s THEN [tbl[x] EXCEPT !.status = status] ELSE tbl[x]]

SetAgentSessionId(tbl, s, a) ==
  [x \in DOMAIN tbl |-> IF x = s THEN [tbl[x] EXCEPT !.agent_session_id = a] ELSE tbl[x]]

\* an exit that stores the status without the reason
SetExitedNoReason(tbl, s, reason) ==
  [x \in DOMAIN tbl |-> IF x = s THEN [tbl[x] EXCEPT !.status = "exited"] ELSE tbl[x]]

SetExited(tbl, s, reason) ==
  [x \in DOMAIN tbl |->
     IF x = s THEN [tbl[x] EXCEPT !.status = "exited", !.exit_reason = reason]
     ELSE tbl[x]]

Archive(tbl, s) ==
  [x \in DOMAIN tbl |-> IF x = s THEN [tbl[x] EXCEPT !.archived = TRUE] ELSE tbl[x]]

\* SELECT MAX(seq) ... ?? 0
SetMax(S) == CHOOSE m \in S : \A x \in S : x <= m

GetLastSeq(tbl, s) ==
  LET seqs == {u.seq : u \in {r \in tbl : r.session_id = s}}
  IN IF seqs = {} THEN 0 ELSE SetMax(seqs)

\* an insert that replaces the rows the session has
UpdatesAddReplacing(tbl, s, seq, updateType, payload) ==
  {r \in tbl : r.session_id # s}
    \cup {[session_id |-> s, seq |-> seq, update_type |-> updateType,
            payload |-> Stringify(payload)]}

UpdatesAdd(tbl, s, seq, updateType, payload) ==
  tbl \cup {[session_id |-> s, seq |-> seq, update_type |-> updateType,
             payload |-> Stringify(payload)]}

\* ORDER BY seq
RECURSIVE SortBySeq(_)
SortBySeq(rows) ==
  IF rows = {} THEN <<>>
  ELSE LET r == CHOOSE x \in rows : \A y \in rows : x.seq <= y.seq
       IN <<r>> \o SortBySeq(rows \ {r})

\* SELECT * FROM updates WHERE session_id = ? ORDER BY seq
UpdatesList(tbl, s) == SortBySeq({r \in tbl : r.session_id = s})

\* the same statement with seq >= ?
UpdatesListSinceInclusive(tbl, s, afterSeq) ==
  SortBySeq({r \in tbl : r.session_id = s /\ r.seq >= afterSeq})

\* SELECT * FROM updates WHERE session_id = ? AND seq > ? ORDER BY seq
UpdatesListSince(tbl, s, afterSeq) ==
  SortBySeq({r \in tbl : r.session_id = s /\ r.seq > afterSeq})

PendingAdd(tbl, s, requestId, payload) ==
  tbl \cup {[id |-> <<s, requestId.v>>, session_id |-> s, request_id |-> requestId,
             request_type |-> "permission", payload |-> Stringify(payload)]}

\* DELETE ... WHERE session_id = ? AND request_id = ?  (request_id is TEXT:
\* a number bound to the statement is compared as its text)
PendingDelete(tbl, s, requestId) ==
  {r \in tbl : ~(r.session_id = s /\ r.request_id = String(requestId))}

\* a listing that leaves the rows of the session out
PendingListOthers(tbl, s) == {r \in tbl : r.session_id # s}

\* SELECT * FROM pending_requests WHERE session_id = ?
PendingListForSession(tbl, s) == {r \in tbl : r.session_id = s}


\* ------------------------------------------------- frames to a client
ResultFrame(id, body) == [kind |-> "result", id |-> id, body |-> body]

\* { success: true }
Success == [success |-> TRUE]

\* a failure answered with a result
ErrorFrameAsResult(id, code, message) == [kind |-> "result", id |-> id, body |-> Success]

ErrorFrame(id, code, message) ==
  [kind |-> "error", id |-> id, code |-> code, message |-> message]

UpdatedFrame(s, seq, updateType, payload) ==
  [kind |-> "notification", method |-> "session/updated", sessionId |-> s,
   updates |-> <<[seq |-> seq, updateType |-> updateType, payload |-> payload]>>]

StatusChangedFrame(s, status, exitReason) ==
  [kind |-> "notification", method |-> "session/status_changed", sessionId |-> s,
   status |-> status, exitReason |-> exitReason]

RequestFrame(s, requestId) ==
  [kind |-> "notification", method |-> "session/request", sessionId |-> s,
   requestId |-> requestId]

NoFrames == [c \in Clients |-> <<>>]

\* ws.send(...): nothing leaves on a socket that is not open
SendTo(out, c, frame) ==
  IF readyState[c] = "OPEN" THEN [out EXCEPT ![c] = Append(@, frame)] ELSE out

sendResult(out, c, id, body) == SendTo(out, c, ResultFrame(id, body))

sendError(out, c, id, code, message) == SendTo(out, c, ErrorFrame(id, code, message))

\* sessionClients.get(sessionId)!.add(ws), creating the set when absent
Subscribe(sc, s, c) ==
  [x \in DOMAIN sc \cup {s} |->
     IF x = s THEN (IF s \in DOMAIN sc THEN sc[s] ELSE {}) \cup {c} ELSE sc[x]]

\* a loop over every connection that is subscribed to some session
pushToClientsAll(out, sc, s, frame) ==
  [c \in Clients |->
     IF (\E x \in DOMAIN sc : c \in sc[x]) /\ readyState[c] = "OPEN"
       THEN Append(out[c], frame) ELSE out[c]]

\* a loop that stops after the first subscriber it sends to
pushToClientsBreak(out, sc, s, frame) ==
  LET open == IF s \in DOMAIN sc THEN {c \in sc[s] : readyState[c] = "OPEN"} ELSE {}
      first == CHOOSE c \in open : TRUE
  IN [c \in Clients |-> IF open # {} /\ c = first THEN Append(out[c], frame) ELSE out[c]]

\* a loop without the try/catch and the readyState test: a subscriber that
\* cannot be sent to ends it, here before anything is sent
pushToClientsThrow(out, sc, s, frame) ==
  [c \in Clients |->
     IF s \in DOMAIN sc /\ c \in sc[s] /\ \A x \in sc[s] : readyState[x] = "OPEN"
       THEN Append(out[c], frame) ELSE out[c]]

\* pushToClients: the frames it sends ...
pushToClients(out, sc, s, frame) ==
  [c \in Clients |->
     IF s \in DOMAIN sc /\ c \in sc[s] /\ readyState[c] = "OPEN"
       THEN Append(out[c], frame) ELSE out[c]]

\* ... and the subscribers it drops (those whose socket is not open)
pushToClientsSet(sc, s) ==
  IF s \in DOMAIN sc
    THEN [sc EXCEPT ![s] = {c \in @ : readyState[c] = "OPEN"}]
    ELSE sc

\* a seq allocated without the + 1
NextSeqStale(tbl, s) == GetLastSeq(tbl, s)

\* persistAndPush: the seq it allocates
NextSeq(tbl, s) == GetLastSeq(tbl, s) + 1

\* frames to an agent: request {id, method}, response {id, result},
\* notification {method}; sessionId is params.sessionId
NoId == [t |-> "none", v |-> 0]

AgentFrame(kind, id, method, sessionId) ==
  [kind |-> kind, id |-> id, method |-> method, sessionId |-> sessionId]

\* one more copy of a frame in a bag
BagAdd(bag, frame) ==
  IF frame \in DOMAIN bag THEN [bag EXCEPT ![frame] = @ + 1]
  ELSE [f \in DOMAIN bag \cup {frame} |-> IF f = frame THEN 1 ELSE bag[f]]

\* frames written to an agent's stdin; AgentConnection.send drops the frame
\* when this.process is null
AgentSend(ain, s, frame) ==
  IF proc[s].handle THEN [ain EXCEPT ![s] = BagAdd(@, frame)] ELSE ain

\* a kill that also drops the continuation registered on process.exited
KillUnhooked(p, s) ==
  [p EXCEPT ![s] = [os |-> IF @.os = "none" THEN "none" ELSE "closed", handle |-> FALSE]]

\* AgentConnection.kill(): process?.kill(); process = null
Kill(p, s) ==
  [p EXCEPT ![s] = [os |-> IF @.os = "alive" THEN "exited" ELSE @.os,
                    handle |-> FALSE]]

\* ------------------------------------------------- agent.ts: the reader
\* the bytes of the streams that are followed: two digits, a brace, a space,
\* the newline, and the two bytes of one UTF-8 character
NL == "\n"
Digits == {"1", "2"}
Bytes == Digits \cup {"{", " ", NL, "c3", "a9"}
Streams == UNION {[1..n -> Bytes] : n \in 0..MaxStream}

RECURSIVE TextOf(_)
\* TextDecoder.decode(value, { stream: true }) on the bytes held back and the
\* bytes read: the characters it returns; a lead byte at the end is held
\* back, a lead byte without its continuation and a continuation byte alone
\* decode to U+FFFD
TextOf(b) ==
  IF b = <<>> THEN <<>>
  ELSE IF b[1] = "c3"
    THEN IF Len(b) = 1 THEN <<>>
         ELSE IF b[2] = "a9" THEN <<"e_acute">> \o TextOf(SubSeq(b, 3, Len(b)))
         ELSE <<"U+FFFD">> \o TextOf(Tail(b))
  ELSE IF b[1] = "a9" THEN <<"U+FFFD">> \o TextOf(Tail(b))
  ELSE <<b[1]>> \o TextOf(Tail(b))

\* ... and the bytes it holds back for the next call
HeldBack(b) == IF b # <<>> /\ b[Len(b)] = "c3" THEN <<"c3">> ELSE <<>>

RECURSIVE Split(_)
\* String.prototype.split("\n")
Split(text) ==
  IF \A i \in 1..Len(text) : text[i] # NL THEN <<text>>
  ELSE LET i == CHOOSE j \in 1..Len(text) :
                  text[j] = NL /\ \A k \in 1..(j - 1) : text[k] # NL
       IN <<SubSeq(text, 1, i - 1)>> \o Split(SubSeq(text, i + 1, Len(text)))

\* a processBuffer that keeps nothing of the last segment
RetainedNothing(segments) == <<>>

\* lines.pop() || "": the last segment stays in the buffer
Retained(segments) == segments[Len(segments)]

RECURSIVE Trim(_)
\* String.prototype.trim()
Trim(line) ==
  IF line = <<>> THEN <<>>
  ELSE IF line[1] = " " THEN Trim(Tail(line))
  ELSE IF line[Len(line)] = " " THEN Trim(SubSeq(line, 1, Len(line) - 1))
  ELSE line

RECURSIVE NumberOf(_)
NumberOf(digits) ==
  IF digits = <<>> THEN 0
  ELSE 10 * NumberOf(SubSeq(digits, 1, Len(digits) - 1))
       + (IF digits[Len(digits)] = "1" THEN 1 ELSE 2)

\* JSON.parse(line): white space around the value is skipped; of the texts
\* over these characters the numbers are JSON, anything else throws
JsonParse(line) ==
  LET value == Trim(line)
  IN IF value # <<>> /\ \A i \in 1..Len(value) : value[i] \in Digits
       THEN [ok |-> TRUE, value |-> NumberOf(value)]
       ELSE [ok |-> FALSE, value |-> 0]

RECURSIVE Dispatch(_, _)
\* the loop of processBuffer over the complete lines: blank lines are
\* skipped, a line JSON.parse throws on is logged, the others go to onMessage
Dispatch(lines, n) ==
  IF n > Len(lines) THEN <<>>
  ELSE (IF Trim(lines[n]) # <<>> /\ JsonParse(lines[n]).ok
          THEN <<JsonParse(lines[n]).value>> ELSE <<>>)
       \o Dispatch(lines, n + 1)

\* one turn of the loop of readStdout: reader.read() returns the next k
\* bytes, they are decoded and added to the buffer, and processBuffer runs
readStdout(k) ==
  LET value == SubSeq(stdout, offset + 1, offset + k)
      bytes == decoder \o value
      segments == Split(buffer \o TextOf(bytes))
  IN
  /\ k \in 1..(Len(stdout) - offset)
  /\ offset' = offset + k
  /\ decoder' = HeldBack(bytes)
  /\ buffer' = Retained(segments)
  /\ messages' = messages \o Dispatch(SubSeq(segments, 1, Len(segments) - 1), 1)
  /\ UNCHANGED stdout
  /\ UNCHANGED bridge

InitBridge ==
  /\ sessions = <<>>
  /\ updates = {}
  /\ pendingRequests = {}
  /\ agentProcesses = {}
  /\ pendingInit = [s \in SessionIds |-> {}]
  /\ sessionClients = <<>>
  /\ pendingAgentRequests = <<>>
  /\ proc = [s \in SessionIds |-> [os |-> "none", handle |-> FALSE]]
  /\ handshake = [s \in SessionIds |-> "none"]
  /\ agentIn = [s \in SessionIds |-> <<>>]
  /\ agentOut = [s \in SessionIds |-> {}]
  /\ promptWaiters = {}
  /\ readyState = [c \in Clients |-> "OPEN"]
  /\ handled = 0
  /\ prompts = {}
  /\ sessionStates = <<>>
  /\ sent = NoFrames

\* the reader before the first read
InitReader ==
  /\ offset = 0
  /\ decoder = <<>>
  /\ buffer = <<>>
  /\ messages = <<>>

\* a bridge whose agents write nothing that is followed byte by byte
Init ==
  /\ InitBridge
  /\ stdout = <<>>
  /\ InitReader

\* ------------------------------------------------------------ clients
\* ws.on("message"): a frame arrives on an open socket
Receive(c) ==
  /\ readyState[c] = "OPEN"
  /\ handled < MaxRequests
  /\ handled' = handled + 1

\* the client's record of a session/prompt call: the first frame that
\* carries its id settles it
PromptCall(c, id, sid, frame) ==
  [ws |-> c, id |-> id, sessionId |-> sid, response |-> frame.kind]

PromptPending(c, id, sid) ==
  [ws |-> c, id |-> id, sessionId |-> sid, response |-> "pending"]

Resolve(c, id, sid, frame) ==
  IF readyState[c] = "OPEN"
    THEN (prompts \ {PromptPending(c, id, sid)}) \cup {PromptCall(c, id, sid, frame)}
    ELSE prompts

\* the socket leaves OPEN (the client went away)
ClientClose(c) ==
  /\ Receive(c)
  /\ readyState' = [readyState EXCEPT ![c] = "CLOSING"]
  /\ sent' = NoFrames
  /\ UNCHANGED <<sessions, updates, pendingRequests, agentProcesses, pendingInit,
                 sessionClients, pendingAgentRequests, proc, handshake, agentIn,
                 agentOut, promptWaiters, prompts>>
  /\ UNCHANGED sessionStates
  /\ UNCHANGED reader

\* ws.on("close")
WsOnClose(c) ==
  /\ readyState[c] = "CLOSING"
  /\ readyState' = [readyState EXCEPT ![c] = "CLOSED"]
  /\ sessionClients' = [s \in DOMAIN sessionClients |-> sessionClients[s] \ {c}]
  /\ sent' = NoFrames
  /\ UNCHANGED <<sessions, updates, pendingRequests, agentProcesses, pendingInit,
                 pendingAgentRequests, proc, handshake, agentIn,
                 agentOut, promptWaiters, handled, prompts>>
  /\ UNCHANGED sessionStates
  /\ UNCHANGED reader

\* --------------------------------------------------- handleSessionList
handleSessionList(c, n) ==
  LET id == NumId(n)
      reply == ResultFrame(id,
                 [sessions |-> {[id |-> s, status |-> sessions[s].status,
                                 exitReason |-> sessions[s].exit_reason]
                                : s \in {x \in DOMAIN sessions : ~sessions[x].archived}}])
  IN
  /\ sent' = SendTo(NoFrames, c, reply)
  /\ Receive(c)
  /\ UNCHANGED prompts
  /\ UNCHANGED <<sessions, updates, pendingRequests, agentProcesses, pendingInit,
                 sessionClients, pendingAgentRequests, proc, handshake, agentIn,
                 agentOut, promptWaiters, readyState>>
  /\ UNCHANGED sessionStates
  /\ UNCHANGED reader

\* ---------------------------------------------------- handleSessionNew
\* generateSessionId(): an id no session has yet
GenerateSessionId == Cardinality(DOMAIN sessions) + 1

\* spawned = FALSE: Bun.spawn throws inside agent.start()
handleSessionNew(c, n, spawned, pool) ==
  LET id == NumId(n)
      s == GenerateSessionId
      reply == IF spawned THEN ResultFrame(id, [sessionId |-> s])
               ELSE ErrorFrame(id, -32603, "Failed to start agent")
  IN
  /\ readyState[c] = "OPEN"
  /\ s \in pool
  /\ sessionClients' = Subscribe(sessionClients, s, c)
  /\ sent' = SendTo(NoFrames, c, reply)
  /\ UNCHANGED prompts
  /\ IF spawned
       THEN /\ sessions' = SessionsCreate(sessions, s)
            /\ agentProcesses' = agentProcesses \cup {s}
            /\ proc' = [proc EXCEPT ![s] = [os |-> "alive", handle |-> TRUE]]
            \* initializeAgentSession up to its first await
            /\ pendingInit' = [pendingInit EXCEPT ![s] = {InitId(s)}]
            /\ agentIn' = [agentIn EXCEPT ![s] =
                 BagAdd(@, AgentFrame("request", InitId(s), "initialize", NULL))]
            /\ handshake' = [handshake EXCEPT ![s] = "await_init"]
       ELSE /\ sessions' = SetStatus(SessionsCreate(sessions, s), s, "error")
            /\ UNCHANGED <<agentProcesses, proc, pendingInit, agentIn, handshake>>
  /\ UNCHANGED <<updates, pendingRequests, pendingAgentRequests, agentOut,
                 promptWaiters, readyState, handled>>
  /\ UNCHANGED sessionStates
  /\ UNCHANGED reader

\* ---------------------------------------------------- handleSessionGet
Sinces == 0..MaxUpdates

SessionView(s) ==
  [id |-> s, status |-> sessions[s].status, exitReason |-> sessions[s].exit_reason]

UpdateView(u) ==
  [seq |-> u.seq, updateType |-> u.update_type, payload |-> Parse(u.payload)]

PendingView(p) ==
  [requestId |-> p.request_id, requestType |-> p.request_type,
   payload |-> Parse(p.payload)]

\* const since = params.since ?? 0;  since > 0 ? listSince : list
GetUpdateList(s, since) ==
  IF since > 0 THEN UpdatesListSince(updates, s, since) ELSE UpdatesList(updates, s)

SessionGetResult(s, since) ==
  LET updateList == GetUpdateList(s, since) IN
  [session |-> SessionView(s),
   updates |-> [i \in 1..Len(updateList) |-> UpdateView(updateList[i])],
   pendingRequests |-> {PendingView(p) : p \in PendingListForSession(pendingRequests, s)}]

handleSessionGet(c, n, sid, since) ==
  LET id == NumId(n)
      reply == IF sid = MissingSid THEN ErrorFrame(id, -32602, "Missing sessionId")
               ELSE IF sid \notin DOMAIN sessions
                 THEN ErrorFrame(id, -32602, "Session not found")
                 ELSE ResultFrame(id, SessionGetResult(sid, since))
  IN
  /\ sent' = SendTo(NoFrames, c, reply)
  /\ Receive(c)
  /\ UNCHANGED prompts
  /\ sessionClients' = IF sid \in DOMAIN sessions
                         THEN Subscribe(sessionClients, sid, c)
                         ELSE sessionClients
  /\ UNCHANGED <<sessions, updates, pendingRequests, agentProcesses, pendingInit,
                 pendingAgentRequests, proc, handshake, agentIn,
                 agentOut, promptWaiters, readyState>>
  /\ UNCHANGED sessionStates
  /\ UNCHANGED reader

\* ------------------------------------------------- handleSessionPrompt
Waiters(s) == {w \in promptWaiters : w.sessionId = s}

\* the log of a session is capped at MaxUpdates; a suspended prompt holds a slot
CanAppend(s) == GetLastSeq(updates, s) + Cardinality(Waiters(s)) < MaxUpdates

UserMessagePayload == [sessionUpdate |-> "user_message_chunk"]

\* the reply of the part of handleSessionPrompt after the wait loop
PromptReply(id, s) ==
  IF sessions[s].agent_session_id = NULL
    THEN ErrorFrame(id, -32602, "Session not ready")
    ELSE ResultFrame(id, Success)

\* a reply routed to a subscriber of the session instead of the requester
ReplySocketSubscriber(c, s) ==
  CHOOSE d \in Subscribe(sessionClients, s, c)[s] : TRUE

\* the socket the reply to a request is written on: the ws of the handler
ReplySocket(c, s) == c

\* the part of handleSessionPrompt after the wait loop (lines 524-550)
PromptForward(c, id, s, sc) ==
  IF sessions[s].agent_session_id = NULL
    THEN /\ sent' = SendTo(NoFrames, ReplySocket(c, s), PromptReply(id, s))
         /\ sessionClients' = sc
         /\ UNCHANGED <<sessions, updates, agentIn>>
    ELSE LET seq == NextSeq(updates, s) IN
         /\ updates' = UpdatesAdd(updates, s, seq, "user_message", UserMessagePayload)
         /\ sessions' = SetStatus(sessions, s, "running")
         /\ agentIn' = AgentSend(agentIn, s,
              AgentFrame("request", id, "session/prompt", sessions[s].agent_session_id))
         /\ sent' = SendTo(
              pushToClients(NoFrames, sc, s,
                UpdatedFrame(s, seq, "user_message", UserMessagePayload)),
              ReplySocket(c, s), PromptReply(id, s))
         /\ sessionClients' = pushToClientsSet(sc, s)

handleSessionPrompt(c, n, sid) ==
  LET id == NumId(n)
      sc == Subscribe(sessionClients, sid, c)
  IN
  /\ sid \in DOMAIN sessions => CanAppend(sid)
  /\ Receive(c)
  /\ IF sid = MissingSid \/ sid \notin DOMAIN sessions
       THEN LET reply == ErrorFrame(id, -32602,
                           IF sid = MissingSid THEN "Missing sessionId"
                           ELSE "Session not found")
            IN /\ sent' = SendTo(NoFrames, c, reply)
               /\ UNCHANGED <<sessions, updates, agentIn, sessionClients, promptWaiters,
                              prompts>>
       ELSE IF sid \notin agentProcesses
         THEN LET reply == ErrorFrame(id, -32602,
                             IF sessions[sid].agent_session_id # NULL
                               THEN "Agent not running. Session resume not yet implemented."
                               ELSE "Agent not ready")
              IN /\ sent' = SendTo(NoFrames, c, reply)
                 /\ sessionClients' = sc
                 /\ UNCHANGED <<sessions, updates, agentIn, promptWaiters, prompts>>
         ELSE IF sessions[sid].agent_session_id = NULL
           THEN \* enters the wait loop
                /\ promptWaiters' = promptWaiters \cup
                     {[ws |-> c, id |-> id, sessionId |-> sid]}
                /\ prompts' = prompts \cup {PromptPending(c, id, sid)}
                /\ sessionClients' = sc
                /\ sent' = NoFrames
                /\ UNCHANGED <<sessions, updates, agentIn>>
           ELSE /\ PromptForward(c, id, sid, sc)
                /\ prompts' = prompts \cup {PromptCall(c, id, sid, PromptReply(id, sid))}
                /\ UNCHANGED promptWaiters
  /\ UNCHANGED <<pendingRequests, agentProcesses, pendingInit,
                 pendingAgentRequests, proc, handshake, agentOut, readyState>>
  /\ UNCHANGED sessionStates
  /\ UNCHANGED reader

\* one turn of the wait loop: await setTimeout(500), then look at the row;
\* last says that this is the 120th turn
PromptWaitTick(w, last) ==
  LET row == sessions[w.sessionId]
      again == /\ row.agent_session_id = NULL
               /\ row.status # "error"
               /\ ~last
  IN
  /\ w \in promptWaiters
  /\ promptWaiters' = IF again THEN promptWaiters ELSE promptWaiters \ {w}
  /\ IF again
       THEN /\ sent' = NoFrames
            /\ UNCHANGED <<sessions, updates, agentIn, sessionClients, prompts>>
       ELSE IF row.agent_session_id = NULL /\ row.status = "error"
         THEN LET reply == ErrorFrame(w.id, -32602, "Session initialization failed")
              IN /\ sent' = SendTo(NoFrames, w.ws, reply)
                 /\ prompts' = Resolve(w.ws, w.id, w.sessionId, reply)
                 /\ UNCHANGED <<sessions, updates, agentIn, sessionClients>>
         ELSE /\ PromptForward(w.ws, w.id, w.sessionId, sessionClients)
              /\ prompts' = Resolve(w.ws, w.id, w.sessionId, PromptReply(w.id, w.sessionId))
  /\ UNCHANGED <<pendingRequests, agentProcesses, pendingInit,
                 pendingAgentRequests, proc, handshake, agentOut, readyState,
                 handled>>
  /\ UNCHANGED sessionStates
  /\ UNCHANGED reader

\* ------------------------------------------------ handleSessionRespond
MapDelete(m, k) == [x \in DOMAIN m \ {k} |-> m[x]]

MapSet(m, k, v) == [x \in DOMAIN m \cup {k} |-> IF x = k THEN v ELSE m[x]]

handleSessionRespond(c, n, sid, requestId) ==
  LET id == NumId(n)
      reply == IF sid = MissingSid
                 THEN ErrorFrame(id, -32602, "Missing sessionId or requestId")
               ELSE IF sid \notin agentProcesses
                 THEN ErrorFrame(id, -32602, "Agent not running")
                 ELSE ResultFrame(id, Success)
  IN
  /\ sent' = SendTo(NoFrames, c, reply)
  /\ Receive(c)
  /\ UNCHANGED prompts
  /\ IF sid \in agentProcesses
       THEN /\ agentIn' = AgentSend(agentIn, sid,
                 AgentFrame("response", OriginalId(requestId), NULL, NULL))
            /\ pendingAgentRequests' = MapDelete(pendingAgentRequests, requestId)
            /\ pendingRequests' = PendingDelete(pendingRequests, sid, requestId)
            /\ sessions' = SetStatus(sessions, sid, "running")
       ELSE UNCHANGED <<sessions, pendingRequests, pendingAgentRequests, agentIn>>
  /\ UNCHANGED <<updates, agentProcesses, pendingInit, sessionClients, proc,
                 handshake, agentOut, promptWaiters, readyState>>
  /\ UNCHANGED sessionStates
  /\ UNCHANGED reader

\* the reply path of handleClientMessage (lines 161-174): a frame with an id
\* and a result or error, and no method
handleClientReply(c, rid) ==
  /\ Receive(c)
  /\ rid \in DOMAIN pendingAgentRequests
  /\ LET pending == pendingAgentRequests[rid] IN
       /\ pendingAgentRequests' = MapDelete(pendingAgentRequests, rid)
       /\ pendingRequests' = PendingDelete(pendingRequests, pending, rid)
       /\ agentIn' = AgentSend(agentIn, pending, AgentFrame("response", rid, NULL, NULL))
  /\ sent' = NoFrames
  /\ UNCHANGED <<sessions, updates, agentProcesses, pendingInit, sessionClients,
                 proc, handshake, agentOut, promptWaiters, readyState, prompts>>
  /\ UNCHANGED sessionStates
  /\ UNCHANGED reader

\* ------------------------------------------------- handleSessionCancel
handleSessionCancel(c, n, sid) ==
  LET id == NumId(n)
      reply == IF sid = MissingSid THEN ErrorFrame(id, -32602, "Missing sessionId")
               ELSE IF sid \notin DOMAIN sessions
                 THEN ErrorFrame(id, -32602, "Session not found")
                 ELSE ResultFrame(id, Success)
  IN
  /\ sent' = SendTo(NoFrames, c, reply)
  /\ Receive(c)
  /\ UNCHANGED prompts
  /\ IF sid \in DOMAIN sessions
       THEN /\ agentIn' =
                 IF sid \in agentProcesses /\ sessions[sid].agent_session_id # NULL
                   THEN AgentSend(agentIn, sid,
                          AgentFrame("notification", NoId, "session/cancel",
                                     sessions[sid].agent_session_id))
                   ELSE agentIn
            /\ sessions' = SetStatus(sessions, sid, "completed")
       ELSE UNCHANGED <<sessions, agentIn>>
  /\ UNCHANGED <<updates, pendingRequests, agentProcesses, pendingInit,
                 sessionClients, pendingAgentRequests, proc, handshake,
                 agentOut, promptWaiters, readyState>>
  /\ UNCHANGED sessionStates
  /\ UNCHANGED reader

\* ------------------------------------------------ handleSessionArchive
handleSessionArchive(c, n, sid) ==
  LET id == NumId(n)
      reply == IF sid = MissingSid THEN ErrorFrame(id, -32602, "Missing sessionId")
               ELSE ResultFrame(id, Success)
  IN
  /\ sent' = SendTo(NoFrames, c, reply)
  /\ Receive(c)
  /\ UNCHANGED prompts
  /\ IF sid # MissingSid
       THEN /\ sessions' = Archive(sessions, sid)
            /\ IF sid \in agentProcesses
                 THEN /\ proc' = Kill(proc, sid)
                      /\ agentProcesses' = agentProcesses \ {sid}
                 ELSE UNCHANGED <<agentProcesses, proc>>
       ELSE UNCHANGED <<sessions, agentProcesses, proc>>
  /\ UNCHANGED <<updates, pendingRequests, pendingInit, sessionClients,
                 pendingAgentRequests, handshake, agentIn, agentOut,
                 promptWaiters, readyState>>
  /\ UNCHANGED sessionStates
  /\ UNCHANGED reader

\* a method outside the switch: the default branch of handleClientMessage
handleUnknownMethod(c, n) ==
  LET id == NumId(n)
      reply == ErrorFrame(id, -32601, "Unknown method: other")
  IN
  /\ sent' = SendTo(NoFrames, c, reply)
  /\ Receive(c)
  /\ UNCHANGED prompts
  /\ UNCHANGED <<sessions, updates, pendingRequests, agentProcesses, pendingInit,
                 sessionClients, pendingAgentRequests, proc, handshake, agentIn,
                 agentOut, promptWaiters, readyState>>
  /\ UNCHANGED sessionStates
  /\ UNCHANGED reader

\* ws.on("message") (lines 135-143): JSON.parse throws on the frame and the
\* catch answers with a null id
handleInvalidJson(c) ==
  /\ sent' = sendError(NoFrames, c, NoId, -32700, "Parse error")
  /\ Receive(c)
  /\ UNCHANGED prompts
  /\ UNCHANGED <<sessions, updates, pendingRequests, agentProcesses, pendingInit,
                 sessionClients, pendingAgentRequests, proc, handshake, agentIn,
                 agentOut, promptWaiters, readyState>>
  /\ UNCHANGED sessionStates
  /\ UNCHANGED reader

\* a session/list whose statement throws in db.ts (sessions.list, line 216):
\* handleClientMessage runs inside the same try, so the same catch answers
handleSessionListThrows(c, n) ==
  /\ sent' = sendError(NoFrames, c, NoId, -32700, "Parse error")
  /\ Receive(c)
  /\ UNCHANGED prompts
  /\ UNCHANGED <<sessions, updates, pendingRequests, agentProcesses, pendingInit,
                 sessionClients, pendingAgentRequests, proc, handshake, agentIn,
                 agentOut, promptWaiters, readyState>>
  /\ UNCHANGED sessionStates
  /\ UNCHANGED reader

\* ------------------------------------------------------- the agent
\* frames of the agent reach handleAgentMessage while its stdout is read,
\* which may go on after the process has exited
Readable(s) == proc[s].os \in {"alive", "exited", "closed"}

HandshakeIds(s) == {InitId(s), NewSessionId(s)}

Requested(s, id) == \E f \in DOMAIN agentIn[s] : f.kind = "request" /\ f.id = id

Replied(s, id) == \E f \in agentOut[s] : f.kind \in {"result", "error"} /\ f.id = id

\* ------------------------------------------------- handleAgentMessage
\* a response {id, result}: the handshake handlers (lines 278-286) and the
\* continuation of initializeAgentSession they resume (lines 376-406)
handleAgentResult(s, id, agentSessionId) ==
  /\ Readable(s)
  /\ Requested(s, id)
  /\ ~Replied(s, id)
  /\ id \in HandshakeIds(s) => id \in pendingInit[s]
  /\ agentOut' = IF id \in HandshakeIds(s) THEN agentOut
                 ELSE [agentOut EXCEPT ![s] = @ \cup {[kind |-> "result", id |-> id]}]
  /\ IF id \in pendingInit[s]
       THEN /\ IF id = InitId(s) /\ handshake[s] = "await_init"
                 THEN \* step 2: create the session with the agent
                      /\ pendingInit' = [pendingInit EXCEPT ![s] = (@ \ {id}) \cup {NewSessionId(s)}]
                      /\ agentIn' = AgentSend(agentIn, s,
                           AgentFrame("request", NewSessionId(s), "session/new", NULL))
                      /\ handshake' = [handshake EXCEPT ![s] = "await_session"]
                      /\ sent' = NoFrames
                      /\ UNCHANGED <<sessions, sessionClients>>
                 ELSE IF id = NewSessionId(s) /\ handshake[s] = "await_session"
                   THEN /\ pendingInit' = [pendingInit EXCEPT ![s] = @ \ {id}]
                        /\ sessions' = SetStatus(
                             SetAgentSessionId(sessions, s, agentSessionId), s, "running")
                        /\ sent' = pushToClients(NoFrames, sessionClients, s,
                             StatusChangedFrame(s, "running", NULL))
                        /\ sessionClients' = pushToClientsSet(sessionClients, s)
                        /\ handshake' = [handshake EXCEPT ![s] = "done"]
                        /\ UNCHANGED agentIn
                   ELSE \* the promise was already rejected by its timeout
                        /\ pendingInit' = [pendingInit EXCEPT ![s] = @ \ {id}]
                        /\ sent' = NoFrames
                        /\ UNCHANGED <<sessions, sessionClients, handshake, agentIn>>
       ELSE \* no handler, no method: the frame is dropped
            /\ sent' = NoFrames
            /\ UNCHANGED <<pendingInit, sessions, sessionClients, handshake, agentIn>>
  /\ UNCHANGED <<updates, pendingRequests, agentProcesses, pendingAgentRequests,
                 proc, promptWaiters, readyState, handled, prompts>>
  /\ UNCHANGED sessionStates
  /\ UNCHANGED reader

\* a response {id, result} to a handshake request that comes after its
\* handler was used and deleted (lines 280-286): no branch takes the frame
handleAgentLateResult(s, id) ==
  /\ Readable(s)
  /\ Requested(s, id)
  /\ id \in HandshakeIds(s)
  /\ id \notin pendingInit[s]
  /\ sent' = NoFrames
  /\ UNCHANGED <<sessions, updates, pendingRequests, agentProcesses, pendingInit,
                 sessionClients, pendingAgentRequests, proc, handshake, agentIn,
                 agentOut, promptWaiters, readyState, handled, prompts>>
  /\ UNCHANGED sessionStates
  /\ UNCHANGED reader

\* a response {id, error} to a handshake request: no branch of
\* handleAgentMessage takes it (line 279 asks for "result" in msg)
handleAgentError(s, id) ==
  /\ Readable(s)
  /\ Requested(s, id)
  /\ ~Replied(s, id)
  /\ agentOut' = [agentOut EXCEPT ![s] = @ \cup {[kind |-> "error", id |-> id]}]
  /\ sent' = NoFrames
  /\ UNCHANGED <<sessions, updates, pendingRequests, agentProcesses, pendingInit,
                 sessionClients, pendingAgentRequests, proc, handshake, agentIn,
                 promptWaiters, readyState, handled, prompts>>
  /\ UNCHANGED sessionStates
  /\ UNCHANGED reader

PermissionPayload == [options |-> "allow_deny"]

\* a request session/request_permission (lines 288-318); the insert into
\* pending_requests throws on a duplicate primary key and ends the handler
handleAgentRequest(s, rid) ==
  /\ Readable(s)
  /\ rid \in AnyAgentReqIds
  /\ [kind |-> "request", id |-> rid] \notin agentOut[s]
  /\ agentOut' = [agentOut EXCEPT ![s] = @ \cup {[kind |-> "request", id |-> rid]}]
  /\ pendingAgentRequests' =
       IF s \in agentProcesses THEN MapSet(pendingAgentRequests, rid, s)
       ELSE pendingAgentRequests
  /\ IF \E r \in pendingRequests : r.id = <<s, rid.v>>
       THEN /\ sent' = NoFrames
            /\ UNCHANGED <<pendingRequests, sessions, sessionClients>>
       ELSE /\ pendingRequests' = PendingAdd(pendingRequests, s, String(rid), PermissionPayload)
            /\ sessions' = SetStatus(sessions, s, "waiting")
            /\ sent' = pushToClients(NoFrames, sessionClients, s, RequestFrame(s, rid))
            /\ sessionClients' = pushToClientsSet(sessionClients, s)
  /\ UNCHANGED <<updates, agentProcesses, pendingInit, proc, handshake, agentIn,
                 promptWaiters, readyState, handled, prompts>>
  /\ UNCHANGED sessionStates
  /\ UNCHANGED reader

\* a notification session/update (lines 320-331): persistAndPush
handleAgentUpdate(s, updateType) ==
  /\ Readable(s)
  /\ CanAppend(s)
  /\ LET seq == NextSeq(updates, s)
         payload == [sessionUpdate |-> updateType]
     IN /\ updates' = UpdatesAdd(updates, s, seq, updateType, payload)
        /\ sent' = pushToClients(NoFrames, sessionClients, s,
                                 UpdatedFrame(s, seq, updateType, payload))
        /\ sessionClients' = pushToClientsSet(sessionClients, s)
  /\ UNCHANGED <<sessions, pendingRequests, agentProcesses, pendingInit,
                 pendingAgentRequests, proc, handshake, agentIn, agentOut,
                 promptWaiters, readyState, handled, prompts>>
  /\ UNCHANGED sessionStates
  /\ UNCHANGED reader

\* the subprocess exits on its own
AgentExit(s) ==
  /\ proc[s].os = "alive"
  /\ proc' = [proc EXCEPT ![s].os = "exited"]
  /\ sent' = NoFrames
  /\ UNCHANGED <<sessions, updates, pendingRequests, agentProcesses, pendingInit,
                 sessionClients, pendingAgentRequests, handshake, agentIn,
                 agentOut, promptWaiters, readyState, handled, prompts>>
  /\ UNCHANGED sessionStates
  /\ UNCHANGED reader

\* process.exited.then(onClose): handleAgentClose
handleAgentClose(s) ==
  /\ proc[s].os = "exited"
  /\ proc' = [proc EXCEPT ![s].os = "closed"]
  /\ sessions' = IF s \in DOMAIN sessions /\ sessions[s].status \notin {"completed", "error"}
                   THEN SetExited(sessions, s, "process_exit")
                   ELSE sessions
  /\ agentProcesses' = agentProcesses \ {s}
  /\ sent' = pushToClients(NoFrames, sessionClients, s,
                           StatusChangedFrame(s, "exited", "process_exit"))
  /\ sessionClients' = pushToClientsSet(sessionClients, s)
  /\ UNCHANGED <<updates, pendingRequests, pendingInit, pendingAgentRequests,
                 handshake, agentIn, agentOut, promptWaiters, readyState, handled, prompts>>
  /\ UNCHANGED sessionStates
  /\ UNCHANGED reader

\* a handshake step without its timer
HandshakeTimeoutUnarmed(s) == FALSE /\ UNCHANGED vars

\* the 60 s timeout of a handshake step fires: the catch block of
\* initializeAgentSession (lines 408-419)
HandshakeTimeout(s) ==
  /\ handshake[s] \in {"await_init", "await_session"}
  /\ handshake' = [handshake EXCEPT ![s] = "failed"]
  /\ sessions' = SetStatus(sessions, s, "error")
  /\ proc' = Kill(proc, s)
  /\ agentProcesses' = agentProcesses \ {s}
  /\ sent' = pushToClients(NoFrames, sessionClients, s, StatusChangedFrame(s, "error", NULL))
  /\ sessionClients' = pushToClientsSet(sessionClients, s)
  /\ UNCHANGED <<updates, pendingRequests, pendingInit, pendingAgentRequests,
                 agentIn, agentOut, promptWaiters, readyState, handled, prompts>>
  /\ UNCHANGED sessionStates
  /\ UNCHANGED reader

\* ------------------------------------------------------ specification
PromptIds == {NumId(n) : n \in RequestIds}

\* the handleSessionPrompt calls a wait loop can hold
WaiterRecords == [ws : Clients, id : PromptIds, sessionId : SessionIds]

\* every handler, for the connections ws and session ids drawn from pool
Handlers(ws, pool) ==
  \/ \E c \in ws : ClientClose(c)
  \/ \E c \in ws : WsOnClose(c)
  \/ \E c \in ws, n \in RequestIds : handleSessionList(c, n)
  \/ \E c \in ws, n \in RequestIds, ok \in BOOLEAN : handleSessionNew(c, n, ok, pool)
  \/ \E c \in ws, n \in RequestIds, sid \in SidParams, since \in Sinces :
       handleSessionGet(c, n, sid, since)
  \/ \E c \in ws, n \in RequestIds, sid \in SidParams : handleSessionPrompt(c, n, sid)
  \/ \E w \in WaiterRecords, last \in BOOLEAN : PromptWaitTick(w, last)
  \/ \E c \in ws, n \in RequestIds, sid \in SidParams, rid \in RespondIds :
       handleSessionRespond(c, n, sid, rid)
  \/ \E c \in ws, rid \in RespondIds : handleClientReply(c, rid)
  \/ \E c \in ws, n \in RequestIds, sid \in SidParams : handleSessionCancel(c, n, sid)
  \/ \E c \in ws, n \in RequestIds, sid \in SidParams : handleSessionArchive(c, n, sid)
  \/ \E c \in ws, n \in RequestIds : handleUnknownMethod(c, n)
  \/ \E s \in SessionIds : \E id \in HandshakeIds(s) \cup PromptIds, a \in AgentSessionIds :
       handleAgentResult(s, id, a)
  \/ \E s \in SessionIds : \E id \in HandshakeIds(s) : handleAgentLateResult(s, id)
  \/ \E s \in SessionIds : \E id \in HandshakeIds(s) : handleAgentError(s, id)
  \/ \E s \in SessionIds, rid \in AgentReqIds : handleAgentRequest(s, rid)
  \/ \E s \in SessionIds, ut \in UpdateTypes : handleAgentUpdate(s, ut)
  \/ \E s \in SessionIds : AgentExit(s)
  \/ \E s \in SessionIds : handleAgentClose(s)
  \/ \E s \in SessionIds : HandshakeTimeout(s)

\* one connection, one session
Next == Handlers(OneClient, OneSession)

Spec == Init /\ [][Next]_vars

\* two connections on one session: the handlers that subscribe a connection,
\* push to the subscribers or take a connection or an agent down
NextClients ==
  \/ \E c \in Clients : ClientClose(c)
  \/ \E c \in Clients : WsOnClose(c)
  \/ \E c \in Clients, n \in RequestIds, ok \in BOOLEAN : handleSessionNew(c, n, ok, OneSession)
  \/ \E c \in Clients, n \in RequestIds, sid \in OneSession, since \in Sinces :
       handleSessionGet(c, n, sid, since)
  \/ \E c \in Clients, n \in RequestIds, sid \in OneSession : handleSessionPrompt(c, n, sid)
  \/ \E w \in WaiterRecords, last \in BOOLEAN : PromptWaitTick(w, last)
  \/ \E c \in Clients, n \in RequestIds, sid \in OneSession : handleSessionArchive(c, n, sid)
  \/ \E s \in SessionIds : \E id \in HandshakeIds(s) \cup PromptIds, a \in AgentSessionIds :
       handleAgentResult(s, id, a)
  \/ \E s \in SessionIds, rid \in AgentReqIds : handleAgentRequest(s, rid)
  \/ \E s \in SessionIds, ut \in UpdateTypes : handleAgentUpdate(s, ut)
  \/ \E s \in SessionIds : AgentExit(s)
  \/ \E s \in SessionIds : handleAgentClose(s)
  \/ \E s \in SessionIds : HandshakeTimeout(s)

SpecClients == Init /\ [][NextClients]_vars

\* two connections, two sessions: the handlers on the way of a prompt
NextSessions ==
  \/ \E c \in Clients, n \in RequestIds : handleSessionNew(c, n, TRUE, SessionIds)
  \/ \E c \in Clients, n \in RequestIds, sid \in SessionIds : handleSessionPrompt(c, n, sid)
  \/ \E w \in WaiterRecords, last \in BOOLEAN : PromptWaitTick(w, last)
  \/ \E s \in SessionIds : \E id \in HandshakeIds(s) \cup PromptIds, a \in AgentSessionIds :
       handleAgentResult(s, id, a)
  \/ \E s \in SessionIds : AgentExit(s)
  \/ \E s \in SessionIds : handleAgentClose(s)

SpecSessions == Init /\ [][NextSessions]_vars

\* one connection, one session: the message handler of the socket with its
\* catch, and every branch of the switch of handleClientMessage
NextDispatch ==
  \/ \E c \in OneClient, n \in RequestIds : handleSessionListThrows(c, n)
  \/ \E c \in OneClient : handleInvalidJson(c)
  \/ \E c \in OneClient, n \in RequestIds : handleSessionList(c, n)
  \/ \E c \in OneClient, n \in RequestIds, ok \in BOOLEAN : handleSessionNew(c, n, ok, OneSession)
  \/ \E c \in OneClient, n \in RequestIds, sid \in SidParams, since \in Sinces :
       handleSessionGet(c, n, sid, since)
  \/ \E c \in OneClient, n \in RequestIds, sid \in SidParams : handleSessionPrompt(c, n, sid)
  \/ \E w \in WaiterRecords, last \in BOOLEAN : PromptWaitTick(w, last)
  \/ \E c \in OneClient, n \in RequestIds, sid \in SidParams, rid \in RespondIds :
       handleSessionRespond(c, n, sid, rid)
  \/ \E c \in OneClient, n \in RequestIds, sid \in SidParams : handleSessionCancel(c, n, sid)
  \/ \E c \in OneClient, n \in RequestIds, sid \in SidParams : handleSessionArchive(c, n, sid)
  \/ \E c \in OneClient, n \in RequestIds : handleUnknownMethod(c, n)
  \/ \E s \in SessionIds : \E id \in HandshakeIds(s), a \in AgentSessionIds :
       handleAgentResult(s, id, a)

SpecDispatch == Init /\ [][NextDispatch]_vars

\* two connections, two sessions: the handlers that subscribe a connection,
\* publish to the subscribers or take a connection down; the agent of the
\* first session sends updates
NextSubscribers ==
  \/ \E c \in Clients : ClientClose(c)
  \/ \E c \in Clients : WsOnClose(c)
  \/ \E c \in Clients, n \in RequestIds : handleSessionNew(c, n, TRUE, SessionIds)
  \/ \E c \in Clients, n \in RequestIds, sid \in SessionIds : handleSessionGet(c, n, sid, 0)
  \/ \E c \in Clients, n \in RequestIds, sid \in SessionIds : handleSessionPrompt(c, n, sid)
  \/ \E w \in WaiterRecords, last \in BOOLEAN : PromptWaitTick(w, last)
  \/ \E s \in SessionIds : \E id \in HandshakeIds(s), a \in AgentSessionIds :
       handleAgentResult(s, id, a)
  \/ \E s \in OneSession, ut \in UpdateTypes : handleAgentUpdate(s, ut)

SpecSubscribers == Init /\ [][NextSubscribers]_vars

\* two connections, one session: a permission request of the agent, the two
\* ways a client resolves it, and the handlers that run while it is pending
NextPermissions ==
  \/ \E c \in Clients : ClientClose(c)
  \/ \E c \in Clients : WsOnClose(c)
  \/ \E c \in Clients, n \in RequestIds : handleSessionNew(c, n, TRUE, OneSession)
  \/ \E c \in Clients, n \in RequestIds, sid \in OneSession : handleSessionGet(c, n, sid, 0)
  \/ \E c \in Clients, n \in RequestIds, sid \in OneSession : handleSessionCancel(c, n, sid)
  \/ \E c \in Clients, n \in RequestIds, sid \in OneSession : handleSessionArchive(c, n, sid)
  \/ \E c \in Clients, n \in RequestIds, sid \in OneSession, rid \in RespondIds :
       handleSessionRespond(c, n, sid, rid)
  \/ \E c \in Clients, rid \in RespondIds : handleClientReply(c, rid)
  \/ \E s \in OneSession : \E id \in HandshakeIds(s), a \in AgentSessionIds :
       handleAgentResult(s, id, a)
  \/ \E s \in OneSession, rid \in AgentReqIds : handleAgentRequest(s, rid)
  \/ \E s \in OneSession : AgentExit(s)
  \/ \E s \in OneSession : handleAgentClose(s)

SpecPermissions == Init /\ [][NextPermissions]_vars

\* two connections, two sessions, each agent numbering its requests from 1:
\* the requests of the agents and the two ways a client answers them
NextReplies ==
  \/ \E c \in Clients, n \in RequestIds : handleSessionNew(c, n, TRUE, SessionIds)
  \/ \E s \in SessionIds : \E id \in HandshakeIds(s), a \in AgentSessionIds :
       handleAgentResult(s, id, a)
  \/ \E s \in SessionIds, rid \in AgentReqIds : handleAgentRequest(s, rid)
  \/ \E c \in Clients, n \in RequestIds, sid \in SessionIds, rid \in RespondIds :
       handleSessionRespond(c, n, sid, rid)
  \/ \E c \in Clients, rid \in RespondIds : handleClientReply(c, rid)

SpecReplies == Init /\ [][NextReplies]_vars

\* one session and the prompts that reach it while it initializes: the n-th
\* session/prompt frame the bridge receives carries the id n
QueueIds == 1..MaxRequests

QueueWaiters == [ws : Clients, id : {NumId(n) : n \in QueueIds}, sessionId : OneSession]

NextQueue ==
  \/ \E c \in Clients, n \in RequestIds : handleSessionNew(c, n, TRUE, OneSession)
  \/ \E c \in Clients, n \in QueueIds, sid \in OneSession :
       n = handled + 1 /\ handleSessionPrompt(c, n, sid)
  \/ \E w \in QueueWaiters, last \in BOOLEAN : PromptWaitTick(w, last)
  \/ \E s \in OneSession : \E id \in HandshakeIds(s), a \in AgentSessionIds :
       handleAgentResult(s, id, a)
  \/ \E s \in OneSession : HandshakeTimeout(s)

\* the timer of a wait loop fires, and the loop has at most 120 turns
FairQueue == \A w \in QueueWaiters : WF_vars(PromptWaitTick(w, TRUE))

SpecQueue == Init /\ [][NextQueue]_vars /\ FairQueue

\* one connection, one session from its creation to the end of its agent:
\* the spawn, the handshake with every answer an agent can give, the requests
\* that change the status, the kills and the exit of the process
NextLifecycle ==
  \/ \E c \in OneClient, n \in RequestIds, ok \in BOOLEAN : handleSessionNew(c, n, ok, OneSession)
  \/ \E c \in OneClient, n \in RequestIds, sid \in OneSession : handleSessionCancel(c, n, sid)
  \/ \E c \in OneClient, n \in RequestIds, sid \in OneSession : handleSessionArchive(c, n, sid)
  \/ \E c \in OneClient, n \in RequestIds, sid \in OneSession, rid \in RespondIds :
       handleSessionRespond(c, n, sid, rid)
  \/ \E s \in OneSession : \E id \in HandshakeIds(s), a \in AgentSessionIds :
       handleAgentResult(s, id, a)
  \/ \E s \in OneSession : \E id \in HandshakeIds(s) : handleAgentError(s, id)
  \/ \E s \in OneSession, rid \in AgentReqIds : handleAgentRequest(s, rid)
  \/ \E s \in OneSession : AgentExit(s)
  \/ \E s \in OneSession : handleAgentClose(s)
  \/ \E s \in OneSession : HandshakeTimeout(s)

\* the continuation of process.exited runs once the process has exited, and
\* the 60 s timer of a handshake step fires
FairLifecycle ==
  /\ \A s \in OneSession : WF_vars(handleAgentClose(s))
  /\ \A s \in OneSession : WF_vars(HandshakeTimeout(s))

SpecLifecycle == Init /\ [][NextLifecycle]_vars /\ FairLifecycle

\* two connections, two sessions: every handler that appends an event or
\* publishes a notification, for either session; one connection prompts
NextIsolation ==
  \/ \E c \in Clients, n \in RequestIds : handleSessionNew(c, n, TRUE, SessionIds)
  \/ \E c \in OneClient, n \in RequestIds, sid \in SessionIds : handleSessionPrompt(c, n, sid)
  \/ \E w \in WaiterRecords, last \in BOOLEAN : PromptWaitTick(w, last)
  \/ \E s \in SessionIds : \E id \in HandshakeIds(s), a \in AgentSessionIds :
       handleAgentResult(s, id, a)
  \/ \E s \in SessionIds, ut \in UpdateTypes : handleAgentUpdate(s, ut)
  \/ \E s \in SessionIds, rid \in AgentReqIds : handleAgentRequest(s, rid)

SpecIsolation == Init /\ [][NextIsolation]_vars

\* the reader of one agent's stdout, on every stream of at most MaxStream
\* bytes and every way reader.read() can cut it
InitStreams ==
  /\ InitBridge
  /\ stdout \in Streams
  /\ InitReader

NextFraming == \E k \in 1..MaxStream : readStdout(k)

SpecFraming == InitStreams /\ [][NextFraming]_vars

\* one connection, one session, agents that use numbers or strings as ids:
\* the handlers on the way of a permission request and its response
NextRespond ==
  \/ \E c \in OneClient, n \in RequestIds : handleSessionNew(c, n, TRUE, OneSession)
  \/ \E s \in SessionIds : \E id \in HandshakeIds(s), a \in AgentSessionIds :
       handleAgentResult(s, id, a)
  \/ \E s \in SessionIds, rid \in AnyAgentReqIds : handleAgentRequest(s, rid)
  \/ \E c \in OneClient, n \in RequestIds, sid \in OneSession, rid \in AnyAgentReqIds :
       handleSessionRespond(c, n, sid, rid)
  \/ \E c \in OneClient, rid \in AnyAgentReqIds : handleClientReply(c, rid)
  \/ \E s \in SessionIds : AgentExit(s)
  \/ \E s \in SessionIds : handleAgentClose(s)

SpecRespond == Init /\ [][NextRespond]_vars

\* ============================================== the buffered revision
\* src/server/src/index.ts: the bridge that keeps each session in memory
\* (sessionStates) with a capped buffer of the agent's messages, and relays
\* the agent's messages, responses included, to the session's current client

\* messages a session buffers; the source keeps 1000 (index.ts line 16)
MAX_BUFFER_SIZE == 2
\* seq values an agent's messages may take in one run
MaxSeq == 3

\* params.lastSeq of session/sync; absent reads as -1
LastSeqs == -1..MaxSeq

\* the state handleSessionNew builds (lines 188-196)
SessionState(c) ==
  [agentSessionId |-> NULL, messageBuffer |-> <<>>, nextSeq |-> 0,
   currentClient |-> c, status |-> "initializing"]

\* a message from an agent, and the notifications the bridge buffers itself
AgentMsg(kind, id, method) == [kind |-> kind, id |-> id, method |-> method]

BridgeNote(method) == AgentMsg("notification", NoId, method)

\* { ...msg, _sessionId, _seq }
Stamped(msg, s, seq) ==
  [kind |-> msg.kind, id |-> msg.id, method |-> msg.method, sessionId |-> s,
   seq |-> seq]

\* a buffer that, when full, turns the new entry away
PushDropNewest(entries, entry) ==
  IF Len(entries) >= MAX_BUFFER_SIZE THEN entries ELSE Append(entries, entry)

\* messageBuffer.push(entry); if (length > MAX_BUFFER_SIZE) shift()
Push(entries, entry) ==
  LET pushed == Append(entries, entry)
  IN IF Len(pushed) > MAX_BUFFER_SIZE THEN Tail(pushed) ELSE pushed

\* bufferAndSend: the session states it leaves ...
bufferAndSend(st, s, msg) ==
  IF s \notin DOMAIN st THEN st
  ELSE [st EXCEPT ![s].nextSeq = @ + 1,
                  ![s].messageBuffer = Push(@, [seq |-> st[s].nextSeq, msg |-> msg])]

\* ... and the frame it sends to the current client, when that is open
bufferAndSendOut(out, st, s, msg) ==
  IF /\ s \in DOMAIN st
     /\ st[s].currentClient # NULL
     /\ readyState[st[s].currentClient] = "OPEN"
    THEN [out EXCEPT ![st[s].currentClient] = Append(@, Stamped(msg, s, st[s].nextSeq))]
    ELSE out

\* the client side: a frame with a result or an error settles the pending
\* call of that socket with the same id
Answers(frames, id) ==
  {i \in 1..Len(frames) : frames[i].kind \in {"result", "error"} /\ frames[i].id = id}

Settle(calls, out) ==
  {IF p.response = "pending" /\ Answers(out[p.ws], p.id) # {}
     THEN [p EXCEPT !.response =
             out[p.ws][CHOOSE i \in Answers(out[p.ws], p.id) : TRUE].kind]
     ELSE p : p \in calls}

\* the agent's messages are bounded through the seq values they take
CanBuffer(s) == s \in DOMAIN sessionStates /\ sessionStates[s].nextSeq < MaxSeq

\* ws.on("close") (lines 120-128)
wsOnCloseBuffered(c) ==
  /\ readyState[c] = "CLOSING"
  /\ readyState' = [readyState EXCEPT ![c] = "CLOSED"]
  /\ sessionStates' =
       [s \in DOMAIN sessionStates |->
          IF sessionStates[s].currentClient = c
            THEN [sessionStates[s] EXCEPT !.currentClient = NULL]
            ELSE sessionStates[s]]
  /\ sent' = NoFrames
  /\ UNCHANGED <<sessions, updates, pendingRequests, agentProcesses, pendingInit,
                 sessionClients, pendingAgentRequests, proc, handshake, agentIn,
                 agentOut, promptWaiters, handled, prompts>>
  /\ UNCHANGED reader

\* the reply path of handleClientMessage (lines 139-147)
handleClientReplyBuffered(c, rid) ==
  /\ Receive(c)
  /\ rid \in DOMAIN pendingAgentRequests
  /\ pendingAgentRequests' = MapDelete(pendingAgentRequests, rid)
  /\ agentIn' = AgentSend(agentIn, pendingAgentRequests[rid],
                          AgentFrame("response", rid, NULL, NULL))
  /\ sent' = NoFrames
  /\ UNCHANGED <<sessions, updates, pendingRequests, agentProcesses, pendingInit,
                 sessionClients, proc, handshake, agentOut, promptWaiters,
                 readyState, prompts, sessionStates>>
  /\ UNCHANGED reader

\* handleSessionNew (lines 176-248) with initializeAgentSession up to its
\* first await; sid is params.sessionId (MissingSid: none, an id is
\* generated); spawned = FALSE: Bun.spawn throws inside agent.start()
handleSessionNewBuffered(c, n, sid, s, spawned) ==
  LET id == NumId(n) IN
  /\ readyState[c] = "OPEN"
  /\ s = sid \/ (sid = MissingSid /\ s \notin DOMAIN sessionStates)
  /\ IF s \in DOMAIN sessionStates
       THEN /\ sent' = sendError(NoFrames, c, id, -32600, "Session already exists")
            /\ UNCHANGED <<sessionStates, proc, pendingInit, agentIn, handshake>>
       ELSE IF spawned
         THEN /\ sessionStates' = MapSet(sessionStates, s, SessionState(c))
              /\ proc' = [proc EXCEPT ![s] = [os |-> "alive", handle |-> TRUE]]
              /\ sent' = sendResult(NoFrames, c, id,
                                    [sessionId |-> s, status |-> "initializing"])
              /\ pendingInit' = [pendingInit EXCEPT ![s] = {InitId(s)}]
              /\ agentIn' = [agentIn EXCEPT ![s] =
                   BagAdd(@, AgentFrame("request", InitId(s), "initialize", NULL))]
              /\ handshake' = [handshake EXCEPT ![s] = "await_init"]
         ELSE /\ sent' = sendError(NoFrames, c, id, -32603, "Failed to start agent")
              /\ UNCHANGED <<sessionStates, proc, pendingInit, agentIn, handshake>>
  /\ UNCHANGED <<sessions, updates, pendingRequests, agentProcesses,
                 sessionClients, pendingAgentRequests, agentOut, promptWaiters,
                 readyState, handled, prompts>>
  /\ UNCHANGED reader

\* the part of handleSessionPrompt after the wait loop (lines 338-349): an
\* error, or the prompt written to the agent and no reply of the bridge
PromptForwardBuffered(c, id, s) ==
  IF sessionStates[s].agentSessionId = NULL
    THEN /\ sent' = sendError(NoFrames, c, id, -32602, "Session not ready")
         /\ UNCHANGED agentIn
    ELSE /\ agentIn' = AgentSend(agentIn, s,
              AgentFrame("request", id, "session/prompt", sessionStates[s].agentSessionId))
         /\ sent' = NoFrames

\* handleSessionPrompt (lines 317-350)
handleSessionPromptBuffered(c, n, sid) ==
  LET id == NumId(n) IN
  /\ Receive(c)
  /\ IF sid = MissingSid \/ sid \notin DOMAIN sessionStates
       THEN /\ sent' = sendError(NoFrames, c, id, -32602,
                         IF sid = MissingSid THEN "Missing sessionId"
                         ELSE "Session not found")
            /\ UNCHANGED <<sessionStates, agentIn, promptWaiters, prompts>>
       ELSE /\ sessionStates' = [sessionStates EXCEPT ![sid].currentClient = c]
            /\ IF /\ sessionStates[sid].agentSessionId = NULL
                  /\ sessionStates[sid].status = "initializing"
                 THEN \* enters the wait loop
                      /\ promptWaiters' = promptWaiters \cup
                           {[ws |-> c, id |-> id, sessionId |-> sid]}
                      /\ sent' = NoFrames
                      /\ prompts' = prompts \cup {PromptPending(c, id, sid)}
                      /\ UNCHANGED agentIn
                 ELSE /\ PromptForwardBuffered(c, id, sid)
                      /\ prompts' = Settle(prompts \cup {PromptPending(c, id, sid)}, sent')
                      /\ UNCHANGED promptWaiters
  /\ UNCHANGED <<sessions, updates, pendingRequests, agentProcesses, pendingInit,
                 sessionClients, pendingAgentRequests, proc, handshake, agentOut,
                 readyState>>
  /\ UNCHANGED reader

\* one turn of the wait loop (lines 335-337): await setTimeout(500), i++,
\* then the loop condition; last says that this is the 120th turn
PromptWaitTickBuffered(w, last) ==
  LET state == sessionStates[w.sessionId]
      again == /\ ~last
               /\ state.agentSessionId = NULL
               /\ state.status = "initializing"
  IN
  /\ w \in promptWaiters
  /\ w.sessionId \in DOMAIN sessionStates
  /\ promptWaiters' = IF again THEN promptWaiters ELSE promptWaiters \ {w}
  /\ IF again
       THEN /\ sent' = NoFrames
            /\ UNCHANGED <<agentIn, prompts>>
       ELSE /\ PromptForwardBuffered(w.ws, w.id, w.sessionId)
            /\ prompts' = Settle(prompts, sent')
  /\ UNCHANGED <<sessions, updates, pendingRequests, agentProcesses, pendingInit,
                 sessionClients, pendingAgentRequests, proc, handshake, agentOut,
                 readyState, handled, sessionStates>>
  /\ UNCHANGED reader

\* handleSessionCancel (lines 352-367): the request goes to the agent with
\* the client's id, and the bridge sends no reply of its own
handleSessionCancelBuffered(c, n, sid) ==
  LET id == NumId(n)
      ready == sid \in DOMAIN sessionStates /\ sessionStates[sid].agentSessionId # NULL
  IN
  /\ Receive(c)
  /\ IF ready
       THEN /\ agentIn' = AgentSend(agentIn, sid,
                 AgentFrame("request", id, "session/cancel", sessionStates[sid].agentSessionId))
            /\ sent' = NoFrames
       ELSE /\ sent' = sendError(NoFrames, c, id, -32602, "Session not found or not ready")
            /\ UNCHANGED agentIn
  /\ UNCHANGED <<sessions, updates, pendingRequests, agentProcesses, pendingInit,
                 sessionClients, pendingAgentRequests, proc, handshake, agentOut,
                 promptWaiters, readyState, prompts, sessionStates>>
  /\ UNCHANGED reader

\* handleSessionList (lines 369-378)
handleSessionListBuffered(c, n) ==
  /\ Receive(c)
  /\ sent' = sendResult(NoFrames, c, NumId(n),
       [sessions |-> {[id |-> s, status |-> sessionStates[s].status,
                       bufferedMessages |-> Len(sessionStates[s].messageBuffer),
                       lastSeq |-> sessionStates[s].nextSeq - 1]
                      : s \in DOMAIN sessionStates}])
  /\ UNCHANGED <<sessions, updates, pendingRequests, agentProcesses, pendingInit,
                 sessionClients, pendingAgentRequests, proc, handshake, agentIn,
                 agentOut, promptWaiters, readyState, prompts, sessionStates>>
  /\ UNCHANGED reader

\* a replay that starts at lastSeq itself
SyncMessagesInclusive(s, lastSeq) ==
  LET Newer(entry) == entry.seq >= lastSeq
      entries == SelectSeq(sessionStates[s].messageBuffer, Newer)
  IN [i \in 1..Len(entries) |-> Stamped(entries[i].msg, s, entries[i].seq)]

\* the messages of a sync reply: the buffered entries above lastSeq, stamped
SyncMessages(s, lastSeq) ==
  LET Newer(entry) == entry.seq > lastSeq
      entries == SelectSeq(sessionStates[s].messageBuffer, Newer)
  IN [i \in 1..Len(entries) |-> Stamped(entries[i].msg, s, entries[i].seq)]

\* handleSessionSync (lines 381-414)
handleSessionSync(c, n, sid, lastSeq) ==
  LET id == NumId(n) IN
  /\ Receive(c)
  /\ IF sid = MissingSid \/ sid \notin DOMAIN sessionStates
       THEN /\ sent' = sendError(NoFrames, c, id, -32602,
                         IF sid = MissingSid THEN "Missing sessionId"
                         ELSE "Session not found")
            /\ UNCHANGED sessionStates
       ELSE /\ sessionStates' = [sessionStates EXCEPT ![sid].currentClient = c]
            /\ sent' = sendResult(NoFrames, c, id,
                 [sessionId |-> sid, status |-> sessionStates[sid].status,
                  messages |-> SyncMessages(sid, lastSeq),
                  currentSeq |-> sessionStates[sid].nextSeq - 1])
  /\ UNCHANGED <<sessions, updates, pendingRequests, agentProcesses, pendingInit,
                 sessionClients, pendingAgentRequests, proc, handshake, agentIn,
                 agentOut, promptWaiters, readyState, prompts>>
  /\ UNCHANGED reader

\* forwardToAgent (lines 416-426): any other method, passed on as it came
forwardToAgent(c, n, sid) ==
  LET id == NumId(n) IN
  /\ Receive(c)
  /\ IF sid \in DOMAIN sessionStates
       THEN /\ agentIn' = AgentSend(agentIn, sid,
                 AgentFrame("request", id, "other", ToString(sid)))
            /\ sent' = NoFrames
       ELSE /\ sent' = sendError(NoFrames, c, id, -32602, "Session not found")
            /\ UNCHANGED agentIn
  /\ UNCHANGED <<sessions, updates, pendingRequests, agentProcesses, pendingInit,
                 sessionClients, pendingAgentRequests, proc, handshake, agentOut,
                 promptWaiters, readyState, prompts, sessionStates>>
  /\ UNCHANGED reader

\* what an agent may write: a response to a request it was sent and has not
\* answered, a permission request, a session/update notification
AgentMessages(s) ==
  {AgentMsg(k, id, NULL) : k \in {"result", "error"}, id \in HandshakeIds(s) \cup PromptIds}
    \cup {AgentMsg("request", rid, "session/request_permission") : rid \in AgentReqIds}
    \cup {AgentMsg("notification", NoId, "session/update")}

Emits(s, msg) ==
  IF msg.kind \in {"result", "error"}
    THEN Requested(s, msg.id) /\ ~Replied(s, msg.id)
    ELSE msg.kind = "request" => [kind |-> "request", id |-> msg.id] \notin agentOut[s]

\* onMessage (lines 199-219), with the continuation of
\* initializeAgentSession (lines 273-302) that a handshake handler resumes;
\* agentSessionId is result.sessionId of the agent's session/new
onMessage(s, msg, agentSessionId) ==
  LET handler == msg.kind = "result" /\ msg.id \in pendingInit[s] IN
  /\ Readable(s)
  /\ s \in DOMAIN sessionStates
  /\ Emits(s, msg)
  /\ agentOut' = IF msg.kind = "notification" THEN agentOut
                 ELSE [agentOut EXCEPT ![s] = @ \cup {[kind |-> msg.kind, id |-> msg.id]}]
  /\ IF handler
       THEN /\ pendingInit' = [pendingInit EXCEPT ![s] =
                 IF msg.id = InitId(s) /\ handshake[s] = "await_init"
                   THEN (@ \ {msg.id}) \cup {NewSessionId(s)} ELSE @ \ {msg.id}]
            /\ UNCHANGED pendingAgentRequests
            /\ IF msg.id = InitId(s) /\ handshake[s] = "await_init"
                 THEN \* step 2: create the session with the agent
                      /\ agentIn' = AgentSend(agentIn, s,
                           AgentFrame("request", NewSessionId(s), "session/new", NULL))
                      /\ handshake' = [handshake EXCEPT ![s] = "await_session"]
                      /\ sent' = NoFrames
                      /\ UNCHANGED sessionStates
                 ELSE IF msg.id = NewSessionId(s) /\ handshake[s] = "await_session"
                   THEN LET ready == [sessionStates EXCEPT
                                        ![s].agentSessionId = agentSessionId,
                                        ![s].status = "ready"]
                        IN /\ sessionStates' = bufferAndSend(ready, s, BridgeNote("session/ready"))
                           /\ sent' = bufferAndSendOut(NoFrames, ready, s,
                                                       BridgeNote("session/ready"))
                           /\ handshake' = [handshake EXCEPT ![s] = "done"]
                           /\ UNCHANGED agentIn
                   ELSE \* the promise was already rejected by its timeout
                        /\ sent' = NoFrames
                        /\ UNCHANGED <<sessionStates, handshake, agentIn>>
       ELSE /\ CanBuffer(s)
            /\ pendingAgentRequests' =
                 IF msg.kind = "request" THEN MapSet(pendingAgentRequests, msg.id, s)
                 ELSE pendingAgentRequests
            /\ sessionStates' = bufferAndSend(sessionStates, s, msg)
            /\ sent' = bufferAndSendOut(NoFrames, sessionStates, s, msg)
            /\ UNCHANGED <<pendingInit, handshake, agentIn>>
  /\ prompts' = Settle(prompts, sent')
  /\ UNCHANGED <<sessions, updates, pendingRequests, agentProcesses,
                 sessionClients, proc, promptWaiters, readyState, handled>>
  /\ UNCHANGED reader

\* onClose (lines 220-232)
onClose(s) ==
  LET closed == [sessionStates EXCEPT ![s].status = "closed"] IN
  /\ proc[s].os = "exited"
  /\ s \in DOMAIN sessionStates
  /\ proc' = [proc EXCEPT ![s].os = "closed"]
  /\ sessionStates' = bufferAndSend(closed, s, BridgeNote("session/closed"))
  /\ sent' = bufferAndSendOut(NoFrames, closed, s, BridgeNote("session/closed"))
  /\ UNCHANGED <<sessions, updates, pendingRequests, agentProcesses, pendingInit,
                 sessionClients, pendingAgentRequests, handshake, agentIn, agentOut,
                 promptWaiters, readyState, handled, prompts>>
  /\ UNCHANGED reader

\* the 60 s timeout of a handshake step fires: the catch block of
\* initializeAgentSession (lines 304-314)
HandshakeTimeoutBuffered(s) ==
  LET failed == [sessionStates EXCEPT ![s].status = "error"] IN
  /\ handshake[s] \in {"await_init", "await_session"}
  /\ s \in DOMAIN sessionStates
  /\ handshake' = [handshake EXCEPT ![s] = "failed"]
  /\ proc' = Kill(proc, s)
  /\ sessionStates' = bufferAndSend(failed, s, BridgeNote("session/error"))
  /\ sent' = bufferAndSendOut(NoFrames, failed, s, BridgeNote("session/error"))
  /\ UNCHANGED <<sessions, updates, pendingRequests, agentProcesses, pendingInit,
                 sessionClients, pendingAgentRequests, agentIn, agentOut,
                 promptWaiters, readyState, handled, prompts>>
  /\ UNCHANGED reader

\* every handler of the buffered revision, for the connections ws
HandlersBuffered(ws) ==
  \/ \E c \in ws : ClientClose(c)
  \/ \E c \in ws : wsOnCloseBuffered(c)
  \/ \E c \in ws, rid \in AgentReqIds : handleClientReplyBuffered(c, rid)
  \/ \E c \in ws, n \in RequestIds, sid \in OneSession \cup {MissingSid},
        s \in OneSession, ok \in BOOLEAN : handleSessionNewBuffered(c, n, sid, s, ok)
  \/ \E c \in ws, n \in RequestIds, sid \in SidParams :
       handleSessionPromptBuffered(c, n, sid)
  \/ \E w \in WaiterRecords, last \in BOOLEAN : PromptWaitTickBuffered(w, last)
  \/ \E c \in ws, n \in RequestIds, sid \in SidParams :
       handleSessionCancelBuffered(c, n, sid)
  \/ \E c \in ws, n \in RequestIds : handleSessionListBuffered(c, n)
  \/ \E c \in ws, n \in RequestIds, sid \in SidParams, lastSeq \in LastSeqs :
       handleSessionSync(c, n, sid, lastSeq)
  \/ \E c \in ws, n \in RequestIds, sid \in SidParams : forwardToAgent(c, n, sid)
  \/ \E s \in SessionIds : \E msg \in AgentMessages(s), a \in AgentSessionIds :
       onMessage(s, msg, a)
  \/ \E s \in SessionIds : AgentExit(s)
  \/ \E s \in SessionIds : onClose(s)
  \/ \E s \in SessionIds : HandshakeTimeoutBuffered(s)

\* two connections on one session
NextBuffered == HandlersBuffered(Clients)

SpecBuffered == Init /\ [][NextBuffered]_vars

\* the timers of the bridge fire and its callbacks run; nothing is assumed
\* of the agents or of the clients
FairBridge ==
  /\ WF_vars(\E w \in WaiterRecords : PromptWaitTickBuffered(w, TRUE))
  /\ \A s \in SessionIds : WF_vars(HandshakeTimeoutBuffered(s))
  /\ \A s \in SessionIds : WF_vars(onClose(s))
  /\ \A c \in Clients : WF_vars(wsOnCloseBuffered(c))

\* one connection on one session
NextBufferedOne == HandlersBuffered(OneClient)

SpecBufferedFair == Init /\ [][NextBufferedOne]_vars /\ FairBridge

\* two connections that take one session from each other: session/new,
\* session/prompt and session/sync claim it, the agent's messages are
\* buffered and pushed, a connection closes
NextSync ==
  \/ \E c \in Clients : ClientClose(c)
  \/ \E c \in Clients : wsOnCloseBuffered(c)
  \/ \E c \in Clients, n \in RequestIds, s \in OneSession :
       handleSessionNewBuffered(c, n, s, s, TRUE)
  \/ \E c \in Clients, n \in RequestIds, sid \in OneSession :
       handleSessionPromptBuffered(c, n, sid)
  \/ \E w \in WaiterRecords : PromptWaitTickBuffered(w, TRUE)
  \/ \E c \in Clients, n \in RequestIds, sid \in OneSession, lastSeq \in LastSeqs :
       handleSessionSync(c, n, sid, lastSeq)
  \/ \E s \in OneSession : \E msg \in AgentMessages(s), a \in AgentSessionIds :
       onMessage(s, msg, a)

SpecSync == Init /\ [][NextSync]_vars

\* ------------------------------------------------------------ claims
\* the session/updated frames for session s among frames
UpdatedFor(frames, s) ==
  LET Test(f) == f.kind = "notification" /\ f.method = "session/updated" /\ f.sessionId = s
  IN SelectSeq(frames, Test)

\* the events of a list whose seq is above k
After(list, k) ==
  LET Test(u) == u.seq > k IN SelectSeq(list, Test)

\* C1: for every session, the seq values of the events a full session/get
\* returns are exactly 1, 2, ..., n in increasing order (no gap, no duplicate)
C1_FullGetSeqs ==
  \A s \in DOMAIN sessions :
    LET list == SessionGetResult(s, 0).updates
    IN \A i \in 1..Len(list) : list[i].seq = i

\* a full session/get was just answered with two events or more
C1_Witness ==
  \E c \in Clients, n \in RequestIds : \E s \in DOMAIN sessions :
    /\ Len(SessionGetResult(s, 0).updates) >= 2
    /\ sent[c] = <<ResultFrame(NumId(n), SessionGetResult(s, 0))>>

\* C2: a step that appends an event to a session sends every client that was
\* subscribed to the session and is open exactly one session/updated frame,
\* with the seq just appended, which is the successor of the last one; and no
\* step sends a session/updated frame with any other seq (so each event
\* arrives once, in seq order)
C2_EachEventOnceInOrder ==
  [][\A s \in SessionIds :
       LET last == GetLastSeq(updates, s)
           appended == GetLastSeq(updates', s) # last
       IN /\ appended => GetLastSeq(updates', s) = last + 1
          /\ \A c \in Clients :
               LET got == UpdatedFor(sent'[c], s)
                   subscribed == /\ s \in DOMAIN sessionClients
                                 /\ c \in sessionClients[s]
                                 /\ readyState[c] = "OPEN"
               IN /\ \A i \in 1..Len(got) :
                       /\ appended
                       /\ got[i].updates[1].seq = last + 1
                  /\ appended /\ subscribed => Len(got) = 1]_vars

\* both connections are subscribed and open, and each has just received the
\* second event of the session
C2_Witness ==
  \E s \in DOMAIN sessions :
    /\ GetLastSeq(updates, s) = 2
    /\ \A c \in Clients :
         /\ readyState[c] = "OPEN"
         /\ Len(UpdatedFor(sent[c], s)) = 1
         /\ UpdatedFor(sent[c], s)[1].updates[1].seq = 2

\* C3: session/get with since = k returns exactly the events with seq > k of
\* the full session/get at the same instant, in the same order, for every k
C3_SinceIsSuffix ==
  \A s \in DOMAIN sessions : \A k \in Sinces :
    SessionGetResult(s, k).updates = After(SessionGetResult(s, 0).updates, k)

\* a session/get with since = 1 was just answered with the second event alone
C3_Witness ==
  \E c \in Clients, n \in RequestIds : \E s \in DOMAIN sessions :
    /\ Len(SessionGetResult(s, 0).updates) = 2
    /\ Len(SessionGetResult(s, 1).updates) = 1
    /\ sent[c] = <<ResultFrame(NumId(n), SessionGetResult(s, 1))>>

\* the responses (results and errors) among frames
Responses(frames) ==
  LET Test(f) == f.kind \in {"result", "error"} IN SelectSeq(frames, Test)

\* session s is running with its agent
Running(s) ==
  /\ s \in DOMAIN sessions
  /\ s \in agentProcesses
  /\ sessions[s].status = "running"
  /\ sessions[s].agent_session_id # NULL

\* the session/prompt requests with id n in the bag of frames sent to an agent
PromptsSent(bag, n) ==
  LET f == AgentFrame("request", NumId(n), "session/prompt", "agent_session_1")
  IN IF f \in DOMAIN bag THEN bag[f] ELSE 0

ResponsesSent(bag, rid) ==
  LET f == AgentFrame("response", rid, NULL, NULL)
  IN IF f \in DOMAIN bag THEN bag[f] ELSE 0

\* C5: for every permission request an agent has made, the bridge has
\* forwarded at most one response to that agent, whatever session/respond
\* calls and raw replies the clients have sent
C5_AtMostOneResponse ==
  \A s \in SessionIds, rid \in AgentReqIds :
    [kind |-> "request", id |-> rid] \in agentOut[s] => ResponsesSent(agentIn[s], rid) <= 1

\* an agent's permission request got two responses
C5_Witness ==
  \E s \in DOMAIN sessions, rid \in AgentReqIds :
    /\ [kind |-> "request", id |-> rid] \in agentOut[s]
    /\ ResponsesSent(agentIn[s], rid) = 2

\* (sid, requestId) names a pending permission that is not resolved
HasPending(sid, requestId) ==
  \E r \in pendingRequests : r.session_id = sid /\ r.request_id = String(requestId)

\* C6: a session/respond that names no unresolved pending permission is
\* answered with the error -32602, forwards nothing to the agent and leaves
\* the session rows and the pending records as they were
C6_RespondWithoutPendingFails ==
  [][\A c \in Clients, n \in RequestIds, sid \in SidParams, rid \in RespondIds :
       handleSessionRespond(c, n, sid, rid) /\ ~HasPending(sid, rid) =>
         /\ Len(sent'[c]) = 1
         /\ sent'[c][1].kind = "error"
         /\ sent'[c][1].code = -32602
         /\ sent'[c][1].id = NumId(n)
         /\ agentIn' = agentIn
         /\ sessions' = sessions
         /\ pendingRequests' = pendingRequests]_vars

\* a session/respond for a request that was resolved before has just been
\* answered with success, and its response went to the agent
C6_Witness ==
  \E c \in Clients, n \in RequestIds : \E s \in DOMAIN sessions, rid \in AgentReqIds :
    /\ [kind |-> "request", id |-> rid] \in agentOut[s]
    /\ ~HasPending(s, rid)
    /\ ResponsesSent(agentIn[s], rid) >= 2
    /\ sent[c] = <<ResultFrame(NumId(n), Success)>>

\* the notifications that carry the session id s among frames
NotificationsFor(frames, s) ==
  LET Test(f) == f.kind = "notification" /\ f.sessionId = s
  IN SelectSeq(frames, Test)

\* C7: once a session is archived (the archive request was answered in the
\* step that set the flag), no step delivers a notification carrying its id
\* on any connection
C7_NoPushAfterArchive ==
  [][\A s \in DOMAIN sessions : sessions[s].archived =>
       \A c \in Clients : NotificationsFor(sent'[c], s) = <<>>]_vars

\* an open connection has just received session/status_changed for a session
\* that is archived
C7_Witness ==
  \E c \in Clients : \E s \in DOMAIN sessions :
    /\ sessions[s].archived
    /\ proc[s].os = "closed"
    /\ readyState[c] = "OPEN"
    /\ sent[c] = <<StatusChangedFrame(s, "exited", "process_exit")>>

\* C8: once the agent of a session has exited and its exit was handled, every
\* session/prompt that was forwarded to it and that it did not reply to has
\* been answered with an error, and the session is exited
C8_PromptFailsWhenAgentExits ==
  \A s \in DOMAIN sessions : \A p \in prompts :
    (/\ p.sessionId = s
     /\ proc[s].os = "closed"
     /\ PromptsSent(agentIn[s], p.id.v) > 0
     /\ ~Replied(s, p.id))
      => sessions[s].status = "exited" /\ p.response = "error"

\* the agent of a running session exited without replying to the prompt it
\* was sent; the session is exited and the prompt had been answered with a
\* result
C8_Witness ==
  \E s \in DOMAIN sessions : \E p \in prompts :
    /\ p.sessionId = s
    /\ proc[s].os = "closed"
    /\ PromptsSent(agentIn[s], p.id.v) > 0
    /\ agentOut[s] = {}
    /\ sessions[s].status = "exited"
    /\ p.response = "result"

\* a session/prompt of session s is with the agent, which has not replied
InFlight(s) ==
  \E p \in prompts :
    /\ p.sessionId = s
    /\ p.response = "result"
    /\ PromptsSent(agentIn[s], p.id.v) > 0
    /\ ~Replied(s, p.id)

\* C10: a session/cancel for a session with a prompt in flight that the agent
\* has not answered leaves the session completed, and every prompt of the
\* session that has left the bridge's wait loop, on a connection that is
\* open, has its answer (a result or an error)
C10_CancelCompletes ==
  [][\A c \in Clients, n \in RequestIds, sid \in SessionIds :
       handleSessionCancel(c, n, sid) /\ sid \in DOMAIN sessions /\ InFlight(sid) =>
         /\ sessions'[sid].status = "completed"
         /\ \A p \in prompts' :
              (/\ p.sessionId = sid
               /\ [ws |-> p.ws, id |-> p.id, sessionId |-> sid] \notin promptWaiters'
               /\ readyState'[p.ws] = "OPEN")
                => p.response \in {"result", "error"}]_vars

\* a cancel was just answered for a session whose prompt is with an agent
\* that has not replied: the cancel notification went out, the session is
\* completed and the prompt has its answer
C10_Witness ==
  \E c \in Clients, n \in RequestIds : \E s \in DOMAIN sessions :
    /\ InFlight(s)
    /\ agentOut[s] = {}
    /\ AgentFrame("notification", NoId, "session/cancel", "agent_session_1")
         \in DOMAIN agentIn[s]
    /\ sessions[s].status = "completed"
    /\ PromptCall(c, NumId(n), s, ResultFrame(NumId(n), Success)) \in prompts
    /\ sent[c] = <<ResultFrame(NumId(n), Success)>>

\* C9: every session/prompt that passed validation on a connection is
\* eventually answered on it with a result or an error carrying its id (or
\* the connection goes away), whatever the agent does
C9_EveryPromptAnswered ==
  \A c \in Clients, n \in RequestIds, s \in SessionIds :
    (PromptPending(c, NumId(n), s) \in prompts)
      ~> (PromptPending(c, NumId(n), s) \notin prompts \/ readyState[c] # "OPEN")

\* a prompt was written to an agent that is alive, its connection is open
\* and still the session's current client, no wait loop holds it, and it has
\* no answer
C9_Witness ==
  \E c \in Clients, n \in RequestIds : \E s \in DOMAIN sessionStates :
    /\ PromptPending(c, NumId(n), s) \in prompts
    /\ readyState[c] = "OPEN"
    /\ sessionStates[s].currentClient = c
    /\ proc[s].os = "alive"
    /\ PromptsSent(agentIn[s], n) > 0
    /\ promptWaiters = {}

\* the statuses in which the agent of a session is not idle or working
NotRunning == {"waiting", "completed", "error", "exited"}

\* C11: a session/prompt on a session whose status is waiting, completed,
\* error or exited is answered with an error, appends no event and leaves the
\* status as it is; and a turn of the wait loop does not accept a prompt
\* unless the status is running
C11_PromptOnlyWhenRunning ==
  [][/\ \A c \in Clients, n \in RequestIds, sid \in SessionIds :
          (/\ handleSessionPrompt(c, n, sid)
           /\ sid \in DOMAIN sessions
           /\ sessions[sid].status \in NotRunning) =>
            /\ Len(sent'[c]) = 1 /\ sent'[c][1].kind = "error"
            /\ updates' = updates
            /\ sessions'[sid].status = sessions[sid].status
     /\ \A w \in WaiterRecords, last \in BOOLEAN :
          PromptWaitTick(w, last) /\ sessions[w.sessionId].status # "running" =>
            /\ updates' = updates
            /\ sessions'[w.sessionId].status = sessions[w.sessionId].status]_vars

\* a session/prompt has just been accepted on a session that a session/cancel
\* had completed: the cancel and the prompt are with the agent, the user
\* message is stored and the status is running again
C11_Witness ==
  \E c \in Clients, n \in RequestIds : \E s \in DOMAIN sessions :
    /\ AgentFrame("notification", NoId, "session/cancel", "agent_session_1")
         \in DOMAIN agentIn[s]
    /\ PromptsSent(agentIn[s], n) = 1
    /\ GetLastSeq(updates, s) = 1
    /\ sessions[s].status = "running"
    /\ pendingRequests = {}
    /\ Responses(sent[c]) = <<ResultFrame(NumId(n), Success)>>

\* the status changes of the state machine: <<from, to>>
Allowed ==
  {<<"initializing", "running">>, <<"initializing", "error">>,
   <<"running", "waiting">>, <<"waiting", "running">>,
   <<"running", "completed">>, <<"waiting", "completed">>,
   <<"initializing", "exited">>, <<"running", "exited">>,
   <<"waiting", "exited">>, <<"completed", "exited">>}

\* C12: every step that changes the stored status of a session takes it along
\* one of the changes of the state machine; nothing leaves error or exited,
\* and completed does not go back to running or waiting
C12_StatusTransitions ==
  [][\A s \in DOMAIN sessions :
       sessions'[s].status # sessions[s].status =>
         <<sessions[s].status, sessions'[s].status>> \in Allowed]_vars

\* a session that was set exited by the exit of its agent has another status
C12_Witness ==
  \E s \in DOMAIN sessions :
    /\ sessions[s].exit_reason = "process_exit"
    /\ proc[s].os = "closed"
    /\ sessions[s].status # "exited"

\* the events and the pending permissions stored for session s
Stored(u, p, s) ==
  <<{r \in u : r.session_id = s}, {r \in p : r.session_id = s}>>

\* C13: once the exit callback of a session's agent has run and the status is
\* exited, no step changes the status, the events or the pending permissions
\* of the session
C13_ReadOnlyAfterExit ==
  [][\A s \in DOMAIN sessions :
       proc[s].os = "closed" /\ sessions[s].status = "exited" =>
         /\ sessions'[s].status = "exited"
         /\ Stored(updates', pendingRequests', s) = Stored(updates, pendingRequests, s)]_vars

\* an event of the agent was stored and pushed for a session that is exited
\* and whose exit callback had run
C13_Witness ==
  \E c \in Clients : \E s \in DOMAIN sessions :
    /\ proc[s].os = "closed"
    /\ sessions[s].status = "exited"
    /\ UpdatedFor(sent[c], s) # <<>>
    /\ UpdatedFor(sent[c], s)[1].updates[1].updateType = "agent_message_chunk"

\* C14: a session whose status is exited, error or completed has no pending
\* permission stored, and a session/get of it lists none
C14_NoPendingPastTerminal ==
  \A s \in DOMAIN sessions :
    sessions[s].status \in {"exited", "error", "completed"} =>
      /\ PendingListForSession(pendingRequests, s) = {}
      /\ SessionGetResult(s, 0).pendingRequests = {}

\* a session/get of a session that is exited was just answered with a
\* pending permission in its list
C14_Witness ==
  \E c \in Clients, n \in RequestIds : \E s \in DOMAIN sessions :
    /\ sessions[s].status = "exited"
    /\ proc[s].os = "closed"
    /\ SessionGetResult(s, 0).pendingRequests # {}
    /\ sent[c] = <<ResultFrame(NumId(n), SessionGetResult(s, 0))>>

\* the agent of session s is registered and its process is alive
LiveAgent(s) == s \in agentProcesses /\ proc[s].os = "alive"

\* C15: for a session with a live agent, the status is waiting exactly when
\* a pending permission is stored for it
C15_WaitingIffPending ==
  \A s \in DOMAIN sessions :
    LiveAgent(s) =>
      (sessions[s].status = "waiting" <=> PendingListForSession(pendingRequests, s) # {})

\* the one permission request of a live agent was resolved by a raw reply,
\* which went to the agent, and the session is still waiting
C15_Witness ==
  \E s \in DOMAIN sessions, rid \in AgentReqIds :
    /\ LiveAgent(s)
    /\ [kind |-> "request", id |-> rid] \in agentOut[s]
    /\ ResponsesSent(agentIn[s], rid) = 1
    /\ PendingListForSession(pendingRequests, s) = {}
    /\ rid \notin DOMAIN pendingAgentRequests
    /\ sessions[s].status = "waiting"

\* C16: no step changes the agent_session_id of a session that has one
C16_AgentSessionIdImmutable ==
  [][\A s \in DOMAIN sessions :
       sessions[s].agent_session_id # NULL =>
         sessions'[s].agent_session_id = sessions[s].agent_session_id]_vars

\* the agent of a session that completed its handshake has exited, the exit
\* callback has run, and the session still has the id the handshake recorded
C16_Witness ==
  \E s \in DOMAIN sessions :
    /\ handshake[s] = "done"
    /\ proc[s].os = "closed"
    /\ sessions[s].exit_reason = "process_exit"
    /\ sessions[s].agent_session_id \in AgentSessionIds

\* C17: a session whose status is initializing, running or waiting has an
\* agent process registered, and a session whose status is completed, error
\* or exited has none
C17_AgentRegisteredIffActive ==
  \A s \in DOMAIN sessions :
    sessions[s].status \in {"initializing", "running", "waiting"} <=> s \in agentProcesses

\* a session/cancel was just answered for a session that completed its
\* handshake: the status is completed, and the agent is registered and alive
C17_Witness ==
  \E c \in Clients, n \in RequestIds : \E s \in DOMAIN sessions :
    /\ sessions[s].status = "completed"
    /\ handshake[s] = "done"
    /\ s \in agentProcesses
    /\ proc[s] = [os |-> "alive", handle |-> TRUE]
    /\ sent[c] = <<ResultFrame(NumId(n), Success)>>

\* the requests the agent of session s has made whose id reads as requestId
\* once both are text
Originals(s, requestId) ==
  {rid \in AnyAgentReqIds :
     [kind |-> "request", id |-> rid] \in agentOut[s] /\ String(rid) = String(requestId)}

\* C18: a session/respond that names a pending permission of a session whose
\* agent can be written to forwards one response that carries the id of the
\* agent's request, with the same value and the same JSON type
C18_ResponseKeepsId ==
  [][\A c \in Clients, n \in RequestIds, sid \in SessionIds, requestId \in AnyAgentReqIds :
       (/\ handleSessionRespond(c, n, sid, requestId)
        /\ HasPending(sid, requestId)
        /\ proc[sid].handle) =>
          \E rid \in Originals(sid, requestId) :
            ResponsesSent(agentIn'[sid], rid) = ResponsesSent(agentIn[sid], rid) + 1]_vars

\* an agent asked for a permission with the string id "1" and no other, and
\* the one response it was sent carries the number 1
C18_Witness ==
  \E s \in DOMAIN sessions :
    /\ {f.id : f \in {g \in agentOut[s] : g.kind = "request"}} = {StrId(1)}
    /\ ResponsesSent(agentIn[s], NumId(1)) = 1
    /\ ResponsesSent(agentIn[s], StrId(1)) = 0
    /\ ~HasPending(s, StrId(1))

\* how many times a handshake request was written to the agent of session s
HandshakeSent(s, id, method) ==
  LET f == AgentFrame("request", id, method, NULL)
  IN IF f \in DOMAIN agentIn[s] THEN agentIn[s][f] ELSE 0

\* each handshake request is sent at most once, and initialize is sent when
\* the agent was started
HandshakeOnce ==
  \A s \in DOMAIN sessions :
    /\ HandshakeSent(s, InitId(s), "initialize") <= 1
    /\ HandshakeSent(s, NewSessionId(s), "session/new") <= 1
    /\ handshake[s] # "none" => HandshakeSent(s, InitId(s), "initialize") = 1

\* the create-session request is sent after initialize was sent and its
\* reply has used up the handler of initialize
CreateAfterInitialize ==
  \A s \in DOMAIN sessions :
    HandshakeSent(s, NewSessionId(s), "session/new") = 1 =>
      /\ HandshakeSent(s, InitId(s), "initialize") = 1
      /\ InitId(s) \notin pendingInit[s]
      /\ handshake[s] # "await_init"

\* a running session has its agent_session_id, which the reply to the
\* create-session request brought
RunningAfterCreate ==
  \A s \in DOMAIN sessions :
    sessions[s].status = "running" =>
      /\ sessions[s].agent_session_id # NULL
      /\ HandshakeSent(s, NewSessionId(s), "session/new") = 1
      /\ handshake[s] = "done"

\* C19: the handshake of every session runs once and in order: one
\* initialize request, the create-session request after the reply to
\* initialize, and the status running after the reply to create-session has
\* been received and the agent_session_id recorded
C19_HandshakeInOrder ==
  /\ HandshakeOnce
  /\ CreateAfterInitialize
  /\ RunningAfterCreate

\* a session is running while its handshake still waits for the reply to
\* initialize and no agent_session_id is recorded
C19_Witness ==
  \E s \in DOMAIN sessions :
    /\ sessions[s].status = "running"
    /\ sessions[s].agent_session_id = NULL
    /\ handshake[s] = "await_init"
    /\ HandshakeSent(s, NewSessionId(s), "session/new") = 0

\* the handshake request the bridge is waiting on for session s
Awaited(s) ==
  IF handshake[s] = "await_init" THEN {InitId(s)}
  ELSE IF handshake[s] = "await_session" THEN {NewSessionId(s)}
  ELSE {}

\* what a step leaves of a failed handshake of session s: the status error,
\* the subprocess killed and unregistered, status_changed error on every open
\* subscriber, and a handshake that has ended without a request being sent
HandshakeFailed(s) ==
  /\ sessions'[s].status = "error"
  /\ ~proc'[s].handle /\ proc'[s].os # "alive"
  /\ s \notin agentProcesses'
  /\ \A c \in Clients :
       (s \in DOMAIN sessionClients /\ c \in sessionClients[s] /\ readyState[c] = "OPEN") =>
         /\ Len(sent'[c]) = 1
         /\ sent'[c][1] = StatusChangedFrame(s, "error", NULL)
  /\ handshake'[s] = "failed"
  /\ agentIn'[s] = agentIn[s]

\* a handshake that has failed stays failed and sends nothing more
NoSecondAttempt ==
  \A s \in DOMAIN sessions :
    handshake[s] = "failed" =>
      /\ handshake'[s] = "failed"
      /\ \A id \in HandshakeIds(s), m \in {"initialize", "session/new"} :
           LET f == AgentFrame("request", id, m, NULL)
           IN f \in DOMAIN agentIn'[s] =>
                f \in DOMAIN agentIn[s] /\ agentIn'[s][f] = agentIn[s][f]

\* the timeout of a handshake step
TimeoutFails == \A s \in DOMAIN sessions : HandshakeTimeout(s) => HandshakeFailed(s)

\* an error reply of the agent to the handshake step that is awaited
ErrorReplyFails ==
  \A s \in DOMAIN sessions : \A id \in Awaited(s) :
    handleAgentError(s, id) => HandshakeFailed(s)

\* C20: a handshake step that times out, or that the agent answers with an
\* error reply, leaves the session in status error with its subprocess
\* killed and status_changed error published to the subscribers, and the
\* handshake is not attempted again
C20_HandshakeFailure ==
  [][TimeoutFails /\ ErrorReplyFails /\ NoSecondAttempt]_vars

\* the agent has answered the awaited handshake step with an error reply, and
\* the session is still initializing with its agent alive and registered
C20_Witness ==
  \E s \in DOMAIN sessions : \E id \in Awaited(s) :
    /\ [kind |-> "error", id |-> id] \in agentOut[s]
    /\ sessions[s].status = "initializing"
    /\ LiveAgent(s)
    /\ proc[s].handle


\* a step that answers connection c with one error -32602 and leaves the
\* stored rows, the subscriptions and the agent processes as they were
RefusedUnknown(c) ==
  /\ Len(sent'[c]) = 1
  /\ sent'[c][1].kind = "error"
  /\ sent'[c][1].code = -32602
  /\ UNCHANGED <<sessions, updates, pendingRequests, sessionClients,
                 agentProcesses, proc, agentIn>>

\* C21: session/get, session/prompt, session/cancel and session/archive with
\* a sessionId that names no stored session are each answered with error
\* -32602 and change no stored row, subscription or agent process
C21_UnknownSessionRefused ==
  [][\A c \in Clients, n \in RequestIds : \A sid \in SessionIds \ DOMAIN sessions :
       /\ (\E since \in Sinces : handleSessionGet(c, n, sid, since)) => RefusedUnknown(c)
       /\ handleSessionPrompt(c, n, sid) => RefusedUnknown(c)
       /\ handleSessionCancel(c, n, sid) => RefusedUnknown(c)
       /\ handleSessionArchive(c, n, sid) => RefusedUnknown(c)]_vars

\* no session was ever stored and a connection has just been answered
\* { success: true }: the answer to a session/archive
C21_Witness ==
  \E c \in Clients, n \in RequestIds :
    /\ sessions = <<>>
    /\ sent[c] = <<ResultFrame(NumId(n), Success)>>


\* the text the decoder has returned once the first n bytes of stdout are read
TextRead(n) == TextOf(SubSeq(stdout, 1, n))

\* the positions of the newlines of a text, and the line a newline ends
Newlines(text) == {i \in 1..Len(text) : text[i] = NL}

LineEndingAt(text, i) ==
  LET before == {j \in Newlines(text) : j < i}
      start == IF before = {} THEN 1 ELSE 1 + CHOOSE j \in before : \A k \in before : k <= j
  IN SubSeq(text, start, i - 1)

Blank(line) == \A i \in 1..Len(line) : line[i] = " "

RECURSIVE ParsedLines(_, _)
\* the parse of every newline-terminated line of a text that is not blank and
\* is valid JSON, in the order of the lines, from position i on
ParsedLines(text, i) ==
  IF i > Len(text) THEN <<>>
  ELSE (IF /\ text[i] = NL
           /\ ~Blank(LineEndingAt(text, i))
           /\ JsonParse(LineEndingAt(text, i)).ok
          THEN <<JsonParse(LineEndingAt(text, i)).value>> ELSE <<>>)
       \o ParsedLines(text, i + 1)

\* what follows the last newline of a text
Fragment(text) ==
  LET last == IF Newlines(text) = {} THEN 0
              ELSE CHOOSE j \in Newlines(text) : \A k \in Newlines(text) : k <= j
  IN SubSeq(text, last + 1, Len(text))

\* C22: however the stream is cut into reads, once n bytes are read the
\* messages passed on are the parse of each newline-terminated line that is
\* not blank and is valid JSON, in order, and the buffer holds the
\* unterminated fragment at the end, which is not passed on
C22_FramingIgnoresChunking ==
  /\ messages = ParsedLines(TextRead(offset), 1)
  /\ buffer = Fragment(TextRead(offset))

\* a stream was read to its end in which a line was dropped (blank or
\* invalid), a later line was passed on, and a fragment is retained
C22_Witness ==
  /\ offset = Len(stdout)
  /\ \E i \in Newlines(TextRead(offset)) :
       /\ Blank(LineEndingAt(TextRead(offset), i)) \/ ~JsonParse(LineEndingAt(TextRead(offset), i)).ok
       /\ \E j \in Newlines(TextRead(offset)) :
            j > i /\ JsonParse(LineEndingAt(TextRead(offset), j)).ok
  /\ Len(messages) = 1
  /\ buffer # <<>>


\* the events stored for session s, and those a step adds
EventsOf(tbl, s) == {r \in tbl : r.session_id = s}

Appended(s) == EventsOf(updates', s) \ EventsOf(updates, s)

\* a step of handleSessionPrompt, at the call or at the last turn of its wait
\* loop, with a prompt that passes its checks: the session is stored, has an
\* agent_session_id and, at the call, a registered agent
PromptAccepted(s) ==
  /\ s \in DOMAIN sessions
  /\ sessions[s].agent_session_id # NULL
  /\ \E c \in Clients, n \in RequestIds :
       \/ handleSessionPrompt(c, n, s) /\ s \in agentProcesses
       \/ \E last \in BOOLEAN :
            PromptWaitTick([ws |-> c, id |-> NumId(n), sessionId |-> s], last)

\* a step that handles a session/update notification of the agent of session s
UpdateReceived(s) == \E ut \in UpdateTypes : handleAgentUpdate(s, ut)

\* a step leaves the events of a session as they are or appends one event at
\* the next seq, and it appends one exactly when it accepts a prompt or
\* receives an update
OneEventPerCause(s) ==
  /\ EventsOf(updates, s) \subseteq EventsOf(updates', s)
  /\ Cardinality(Appended(s)) <= 1
  /\ \A r \in Appended(s) : r.seq = GetLastSeq(updates, s) + 1
  /\ Appended(s) # {} <=> (PromptAccepted(s) \/ UpdateReceived(s))

\* the type of an appended event is the discriminator of its payload:
\* user_message_chunk for a prompt, the update's sessionUpdate for an update
TypeIsDiscriminator(s) ==
  \A r \in Appended(s) :
    /\ r.update_type = Parse(r.payload).sessionUpdate
    /\ PromptAccepted(s) => r.update_type = "user_message_chunk"
    /\ UpdateReceived(s) => handleAgentUpdate(s, r.update_type)

\* C23: the event log of a session grows by one user_message_chunk event per
\* accepted prompt and by one event per session/update notification of its
\* agent, with the update's discriminator as type and the update as payload,
\* in the order of processing, and by nothing else
C23_LogIsPromptsAndUpdates ==
  [][\A s \in SessionIds : OneEventPerCause(s) /\ TypeIsDiscriminator(s)]_vars

\* the happy path: a running session whose log is the user's message followed
\* by one agent_message_chunk
C23_Witness ==
  \E s \in DOMAIN sessions :
    LET events == SessionGetResult(s, 0).updates IN
    /\ sessions[s].status = "running"
    /\ Len(events) = 2
    /\ events[1].payload = UserMessagePayload
    /\ events[2].updateType = "agent_message_chunk"
    /\ events[2].payload = [sessionUpdate |-> "agent_message_chunk"]


\* the events a full session/get of session s returns from a table of updates
FullLog(tbl, s) ==
  LET updateList == UpdatesList(tbl, s)
  IN [i \in 1..Len(updateList) |-> UpdateView(updateList[i])]

IsPrefix(a, b) == Len(a) <= Len(b) /\ a = SubSeq(b, 1, Len(a))

\* C24: the event log is append-only: what a full session/get returns before
\* a step is a prefix of what it returns after it, with the same seq, type and
\* payload for every earlier event
C24_LogAppendOnly ==
  [][\A s \in DOMAIN sessions : IsPrefix(FullLog(updates, s), FullLog(updates', s))]_vars

\* a log of two events: the second was appended to a log that a full
\* session/get could already have returned
C24_Witness ==
  \E s \in DOMAIN sessions :
    /\ Len(FullLog(updates, s)) >= 2
    /\ SessionGetResult(s, 0).updates = FullLog(updates, s)


\* the subscribers of a session in a map of subscriber sets
SubscribersOf(sc, s) == IF s \in DOMAIN sc THEN sc[s] ELSE {}

\* the notifications about session s among the frames sent to a connection
NotifiedOf(frames, s) ==
  LET Test(f) == f.kind = "notification" /\ f.sessionId = s
  IN SelectSeq(frames, Test)

\* a step in which a notification about session s went out, or in which the
\* agent of s had an update handled
PublishedOn(s) ==
  \/ \E c \in Clients : NotifiedOf(sent'[c], s) # <<>>
  \/ \E ut \in UpdateTypes : handleAgentUpdate(s, ut)

\* the sessions other than s keep their subscribers
OthersKept(s) ==
  \A t \in SessionIds \ {s} :
    SubscribersOf(sessionClients', t) = SubscribersOf(sessionClients, t)

AnsweredWith(c, code) ==
  /\ Len(sent'[c]) = 1
  /\ sent'[c][1].kind = "error"
  /\ sent'[c][1].code = code

\* the frames that are not valid JSON, the methods outside the session
\* methods and the requests without a sessionId get -32700, -32601 (and reach
\* no agent) and -32602
DispatchErrors(c, n) ==
  /\ handleInvalidJson(c) => AnsweredWith(c, -32700)
  /\ handleUnknownMethod(c, n) => AnsweredWith(c, -32601) /\ agentIn' = agentIn
  /\ (\/ \E since \in Sinces : handleSessionGet(c, n, MissingSid, since)
      \/ handleSessionPrompt(c, n, MissingSid)
      \/ \E rid \in RespondIds : handleSessionRespond(c, n, MissingSid, rid)
      \/ handleSessionCancel(c, n, MissingSid)
      \/ handleSessionArchive(c, n, MissingSid)) => AnsweredWith(c, -32602)

\* a well-formed request that fails inside the bridge (the agent cannot be
\* started, a statement of the database throws) gets -32603
InternalErrors(c, n) ==
  /\ handleSessionNew(c, n, FALSE, OneSession) => AnsweredWith(c, -32603)
  /\ handleSessionListThrows(c, n) => AnsweredWith(c, -32603)

\* C26: the dispatcher answers a frame that is not valid JSON with -32700, a
\* method that is not a session method with -32601 without forwarding it, a
\* request without its sessionId with -32602, and an internal failure on a
\* well-formed request with -32603, not -32700
C26_DispatcherErrors ==
  [][\A c \in OneClient, n \in RequestIds : DispatchErrors(c, n) /\ InternalErrors(c, n)]_vars

\* a connection has just been answered -32700 with a null id
C26_Witness ==
  \E c \in OneClient :
    /\ handled > 0
    /\ sent[c] = <<ErrorFrame(NoId, -32700, "Parse error")>>


StoredUnder(tbl, s, rid) ==
  {r \in tbl : r.session_id = s /\ r.request_id = String(rid)}

\* the entry of pendingRequests in a session/get result for the request rid
PermissionView(rid) ==
  [requestId |-> String(rid), requestType |-> "permission", payload |-> PermissionPayload]

\* a step of one of the two handlers by which a client resolves the request
\* rid of session s: session/respond naming it, or a raw reply with its id
Resolves(s, rid) ==
  \/ \E c \in Clients, n \in RequestIds, requestId \in RespondIds :
       String(requestId) = String(rid) /\ handleSessionRespond(c, n, s, requestId)
  \/ \E c \in Clients, requestId \in RespondIds :
       String(requestId) = String(rid) /\ handleClientReply(c, requestId)

RequestStored(s, rid) ==
  handleAgentRequest(s, rid) =>
    /\ StoredUnder(pendingRequests, s, rid) = {}
    /\ Cardinality(StoredUnder(pendingRequests', s, rid)) = 1
    /\ pendingRequests' \ pendingRequests = StoredUnder(pendingRequests', s, rid)
    /\ sessions'[s].status = "waiting"
    /\ \A c \in SubscribersOf(sessionClients, s) :
         readyState[c] = "OPEN" => sent'[c] = <<RequestFrame(s, rid)>>

StaysUntilResolved(s, rid) ==
  StoredUnder(pendingRequests, s, rid) # {} /\ ~Resolves(s, rid) =>
    StoredUnder(pendingRequests', s, rid) # {}

ListedByGet(s, rid) ==
  \A c \in Clients, n \in RequestIds :
    handleSessionGet(c, n, s, 0) /\ StoredUnder(pendingRequests, s, rid) # {} =>
      /\ Len(sent'[c]) = 1
      /\ sent'[c][1].kind = "result"
      /\ PermissionView(rid) \in sent'[c][1].body.pendingRequests

\* C28: a session/request_permission request of the agent stores one pending
\* permission under the request id, sets the status of the session to waiting
\* and sends session/request with that requestId to every open subscriber; no
\* step other than a session/respond or a raw reply naming the request removes
\* the record, and every session/get while it is stored, from any connection,
\* lists it in pendingRequests
C28_PermissionPendingUntilResolved ==
  [][\A s \in OneSession, rid \in AgentReqIds :
       /\ RequestStored(s, rid)
       /\ StaysUntilResolved(s, rid)
       /\ ListedByGet(s, rid)]_vars

\* a connection that was no subscriber when the request came has sent
\* session/get and was answered with the pending permission in the result
C28_Witness ==
  \E c \in Clients, rid \in AgentReqIds :
    /\ Len(sent[c]) = 1
    /\ sent[c][1].kind = "result"
    /\ sent[c][1].body # Success
    /\ "pendingRequests" \in DOMAIN sent[c][1].body
    /\ PermissionView(rid) \in sent[c][1].body.pendingRequests
    /\ sent[c][1].body.session.status = "waiting"
    /\ \E d \in Clients \ {c} : d \in SubscribersOf(sessionClients, 1)

\* the sessions whose request rid connection c can be answering: c is a
\* subscriber of the session, the agent of the session has sent a request
\* with that id, and the request is stored as pending
KnownRequests(c, rid) ==
  {s \in SessionIds :
     /\ c \in SubscribersOf(sessionClients, s)
     /\ [kind |-> "request", id |-> rid] \in agentOut[s]
     /\ StoredUnder(pendingRequests, s, rid) # {}}

\* the sessions whose agent is written to in the step
WrittenAgents == {s \in SessionIds : agentIn'[s] # agentIn[s]}

\* C29: the reply of a connection to an agent request goes to the agent of a
\* session that issued the request to that connection and to no other agent,
\* also when the agents of two sessions have requests with the same id
\* outstanding: a raw reply is written only to an agent whose request with
\* that id the connection was told of, a session/respond only to the agent of
\* the session it names
C29_ReplyReachesIssuer ==
  [][/\ \A c \in Clients, rid \in RespondIds :
          handleClientReply(c, rid) /\ KnownRequests(c, rid) # {} =>
            WrittenAgents \subseteq KnownRequests(c, rid)
     /\ \A c \in Clients, n \in RequestIds, sid \in SessionIds, rid \in RespondIds :
          handleSessionRespond(c, n, sid, rid) => WrittenAgents \subseteq {sid}]_vars

\* the agents of both sessions had a request 1 outstanding, each session with
\* its own subscriber; the agent of one session has been written a response
\* and its record is gone, the request of the other session is still stored
\* and nothing is left in pendingAgentRequests to route a reply to it
C29_Witness ==
  \E s \in SessionIds : \E o \in SessionIds \ {s} : \E rid \in AgentReqIds :
    /\ [kind |-> "request", id |-> rid] \in agentOut[s]
    /\ [kind |-> "request", id |-> rid] \in agentOut[o]
    /\ SubscribersOf(sessionClients, s) \cap SubscribersOf(sessionClients, o) = {}
    /\ \E f \in DOMAIN agentIn[s] : f.kind = "response" /\ f.id = rid
    /\ ~\E f \in DOMAIN agentIn[o] : f.kind = "response"
    /\ StoredUnder(pendingRequests, s, rid) = {}
    /\ StoredUnder(pendingRequests, o, rid) # {}
    /\ rid \notin DOMAIN pendingAgentRequests

\* the copies of a frame in a bag of frames
CopiesOf(bag, frame) == IF frame \in DOMAIN bag THEN bag[frame] ELSE 0

\* the session/prompt frame with the id written to the agent of session s
PromptFrame(s, id) ==
  AgentFrame("request", id, "session/prompt", sessions[s].agent_session_id)

\* a step that writes the session/prompt with the id to the agent of s
Forwards(s, id) ==
  \E a \in AgentSessionIds \cup {NULL} :
    LET frame == AgentFrame("request", id, "session/prompt", a)
    IN CopiesOf(agentIn'[s], frame) > CopiesOf(agentIn[s], frame)

\* nothing is forwarded to the agent of a session without agent_session_id
NotBeforeHandshake ==
  \A s \in OneSession, n \in QueueIds :
    Forwards(s, NumId(n)) => s \in DOMAIN sessions /\ sessions[s].agent_session_id # NULL

\* a prompt leaves the wait loop forwarded once, or answered with an error
\* when the handshake has failed or the loop has ended without agent_session_id
LeavesForwardedOrRefused ==
  \A w \in QueueWaiters :
    w \in promptWaiters =>
      IF w \in promptWaiters'
        THEN ~Forwards(w.sessionId, w.id)
        ELSE \/ /\ sessions[w.sessionId].agent_session_id # NULL
                /\ CopiesOf(agentIn'[w.sessionId], PromptFrame(w.sessionId, w.id)) = 1
                /\ sent'[w.ws][Len(sent'[w.ws])] = ResultFrame(w.id, Success)
             \/ /\ sessions[w.sessionId].agent_session_id = NULL
                /\ agentIn' = agentIn
                /\ sent'[w.ws] \in
                     {<<ErrorFrame(w.id, -32602, "Session initialization failed")>>,
                      <<ErrorFrame(w.id, -32602, "Session not ready")>>}

\* no prompt is forwarded while a prompt received before it still waits
ForwardedInOrder ==
  \A w \in promptWaiters, v \in promptWaiters :
    /\ v.sessionId = w.sessionId
    /\ v.id.v < w.id.v
    /\ v \in promptWaiters'
    => ~Forwards(w.sessionId, w.id)

\* every prompt in the wait loop leaves it
EveryWaiterLeaves ==
  \A w \in QueueWaiters : (w \in promptWaiters) ~> (w \notin promptWaiters)

\* C30: a session/prompt received while the session is initializing is not
\* forwarded before agent_session_id is set; it leaves the wait loop, either
\* forwarded exactly once or answered with an error when the handshake failed
\* or the wait bound was reached; and the prompts that waited are forwarded
\* in the order in which they were received
C30_QueuedPromptsInOrder ==
  /\ [][NotBeforeHandshake /\ LeavesForwardedOrRefused /\ ForwardedInOrder]_vars
  /\ EveryWaiterLeaves

\* two prompts waited for the handshake, the handshake has completed, and the
\* prompt received second has been forwarded while the first still waits
C30_Witness ==
  \E v \in promptWaiters :
    /\ v.id = NumId(1)
    /\ sessions[v.sessionId].agent_session_id # NULL
    /\ CopiesOf(agentIn[v.sessionId], PromptFrame(v.sessionId, NumId(2))) = 1
    /\ CopiesOf(agentIn[v.sessionId], PromptFrame(v.sessionId, NumId(1))) = 0
    /\ \E p \in prompts : p.id = NumId(2) /\ p.response = "result"

\* the step appends one event for the prompt, of type user_message_chunk, at
\* the next seq of the session
AppendsUserMessage(s) ==
  /\ Cardinality(Appended(s)) = 1
  /\ \A r \in Appended(s) :
       /\ r.update_type = "user_message_chunk"
       /\ Parse(r.payload) = UserMessagePayload
       /\ r.seq = GetLastSeq(updates, s) + 1

\* the step writes one frame to the agent of s: a session/prompt request that
\* names the agent's session id
SendsPromptToAgent(s) ==
  /\ sessions[s].agent_session_id \in AgentSessionIds
  /\ \E n \in RequestIds :
       agentIn'[s] = BagAdd(agentIn[s],
         AgentFrame("request", NumId(n), "session/prompt", sessions[s].agent_session_id))

\* C31: a step that accepts a prompt appends exactly one user_message_chunk
\* event at the next seq of the session, before any event the agent can emit
\* in answer, and writes to the agent one session/prompt request whose
\* sessionId is the agent_session_id of the session
C31_PromptAppendedThenForwarded ==
  [][\A s \in SessionIds :
       PromptAccepted(s) => AppendsUserMessage(s) /\ SendsPromptToAgent(s)]_vars

\* a prompt was answered with success and its event is stored, and no
\* session/prompt has been written to the agent, whose process was killed
C31_Witness ==
  \E s \in DOMAIN sessions :
    /\ \E p \in prompts : p.sessionId = s /\ p.response = "result"
    /\ \E r \in EventsOf(updates, s) :
         r.update_type = "user_message" /\ Parse(r.payload) = UserMessagePayload
    /\ ~\E f \in DOMAIN agentIn[s] : f.method = "session/prompt"
    /\ ~proc[s].handle

\* the steps of the life of an agent process: it is spawned by session/new,
\* it exits (on its own or killed), and the exit callback runs for it
ProcessSteps(s) ==
  \/ proc'[s].os = proc[s].os
  \/ /\ proc[s].os = "none" /\ proc'[s].os = "alive"
     /\ \E c \in Clients, n \in RequestIds : handleSessionNew(c, n, TRUE, OneSession)
  \/ /\ proc[s].os = "alive" /\ proc'[s].os = "exited"
     /\ ~handleAgentClose(s)
  \/ /\ proc[s].os = "exited" /\ proc'[s].os = "closed"
     /\ handleAgentClose(s)

\* the exit callback runs only for a process that has exited and for which
\* it has not run
CallbackAfterExit(s) ==
  handleAgentClose(s) => proc[s].os = "exited" /\ proc'[s].os = "closed"

\* a kill by the bridge leaves a started process exited, with its callback
\* still to run, and does nothing to a process that was not spawned
KillKeepsCallback(s) ==
  proc[s].handle /\ ~proc'[s].handle =>
    /\ proc[s].os \in {"alive", "exited", "closed"}
    /\ proc'[s].os = (IF proc[s].os = "alive" THEN "exited" ELSE proc[s].os)

\* C32: for each started agent process the exit callback runs exactly once,
\* after the process has exited, whether it exited on its own or was killed
\* by the bridge (archive, handshake failure): the callback runs only from
\* the exited state and ends it, every exited process gets its callback, and
\* a process that failed to spawn never gets one
C32_ExitCallbackOnce ==
  /\ [][\A s \in OneSession :
          ProcessSteps(s) /\ CallbackAfterExit(s) /\ KillKeepsCallback(s)]_vars
  /\ \A s \in OneSession : (proc[s].os = "exited") ~> (proc[s].os = "closed")
  /\ [][\A s \in OneSession :
          (s \in DOMAIN sessions /\ proc[s].os = "none") => proc'[s].os = "none"]_vars

\* the exit callback has run for an agent that the bridge killed when the
\* session was archived
C32_Witness ==
  \E s \in DOMAIN sessions :
    /\ proc[s].os = "closed"
    /\ ~proc[s].handle
    /\ sessions[s].archived
    /\ sessions[s].status = "exited"

\* a step in which the bridge calls send on the agent of session s after kill()
\* has set its process to null, so that stdin is no longer available: the
\* handshake continues with session/new, or a prompt leaves its wait loop
SendWithoutStdin(s) ==
  /\ ~proc[s].handle
  /\ \/ /\ InitId(s) \in pendingInit[s]
        /\ handshake[s] = "await_init"
        /\ \E a \in AgentSessionIds : handleAgentResult(s, InitId(s), a)
     \/ /\ s \in DOMAIN sessions
        /\ sessions[s].agent_session_id # NULL
        /\ \E c \in Clients, n \in RequestIds, last \in BOOLEAN :
             PromptWaitTick([ws |-> c, id |-> NumId(n), sessionId |-> s], last)

\* C33: a send to an agent whose stdin is no longer available makes the
\* session exited with the reason io_error (the case of the claim that the
\* bridge can be driven into: a pipe that fails under a live process is not
\* among the steps that are followed)
C33_PipeErrorExits ==
  [][\A s \in OneSession :
       SendWithoutStdin(s) =>
         sessions'[s].status = "exited" /\ sessions'[s].exit_reason = "io_error"]_vars

\* the handshake went on to its second step after the agent was killed: the
\* session/new request was dropped by send, and the session is not exited
C33_Witness ==
  \E s \in DOMAIN sessions :
    /\ handshake[s] = "await_session"
    /\ ~proc[s].handle
    /\ ~\E f \in DOMAIN agentIn[s] : f.method = "session/new"
    /\ sessions[s].status # "exited"
    /\ sessions[s].exit_reason # "io_error"

\* C34: a session whose stored status is running has completed its handshake:
\* its agent_session_id is set
C34_RunningAfterHandshake ==
  \A s \in DOMAIN sessions :
    sessions[s].status = "running" => sessions[s].agent_session_id # NULL

\* the agent asked for a permission while the handshake was awaiting its
\* reply, a session/respond answered it, and the session is running without
\* agent_session_id
C34_Witness ==
  \E s \in DOMAIN sessions :
    /\ sessions[s].status = "running"
    /\ sessions[s].agent_session_id = NULL
    /\ handshake[s] \in {"await_init", "await_session"}
    /\ \E rid \in AgentReqIds : [kind |-> "request", id |-> rid] \in agentOut[s]
    /\ \E f \in DOMAIN agentIn[s] : f.kind = "response"

\* C35: when the agent process cannot be spawned, session/new is answered
\* with the error -32603 and nothing else, the stored status of the new
\* session is error, no agent is registered for it and nothing was written
\* to an agent
C35_SpawnFailure ==
  [][\A c \in Clients, n \in RequestIds :
       handleSessionNew(c, n, FALSE, OneSession) =>
         LET s == GenerateSessionId IN
         /\ Len(sent'[c]) = 1
         /\ sent'[c][1].kind = "error"
         /\ sent'[c][1].id = NumId(n)
         /\ sent'[c][1].code = -32603
         /\ s \in DOMAIN sessions' /\ s \notin DOMAIN sessions
         /\ sessions'[s].status = "error"
         /\ s \notin agentProcesses'
         /\ proc'[s] = [os |-> "none", handle |-> FALSE]
         /\ pendingInit'[s] = {}
         /\ agentIn' = agentIn]_vars

\* a session whose agent failed to spawn: stored with status error, without
\* process, agent registration or handshake
C35_Witness ==
  \E s \in DOMAIN sessions :
    /\ sessions[s].status = "error"
    /\ proc[s].os = "none"
    /\ handshake[s] = "none"
    /\ s \notin agentProcesses
    /\ \E c \in Clients : Len(sent[c]) = 1 /\ sent[c][1].kind = "error" /\ sent[c][1].code = -32603

\* the statuses a session has once it has left initializing for good or bad
Settled == {"running", "error", "exited"}

\* session s is stored with the status initializing
Initializing(s) == s \in DOMAIN sessions /\ sessions[s].status = "initializing"

\* C36: every session that is initializing eventually has the status running,
\* error or exited, whatever its agent does: answers both steps of the
\* handshake, stays silent, answers with an error, or exits
C36_LeavesInitializing ==
  \A s \in OneSession :
    Initializing(s) ~> (s \in DOMAIN sessions /\ sessions[s].status \in Settled)

\* the agent answered a step of the handshake with an error, the timer of
\* the step fired and the session has the status error
C36_Witness ==
  \E s \in DOMAIN sessions :
    /\ sessions[s].status = "error"
    /\ handshake[s] = "failed"
    /\ \E f \in agentOut[s] : f.kind = "error"

\* the session/status_changed notifications among the frames sent to c
StatusChanges(frames, c) ==
  {frames[c][i] : i \in {j \in 1..Len(frames[c]) :
     frames[c][j].kind = "notification" /\ frames[c][j].method = "session/status_changed"}}

\* C37: every session/status_changed notification a step sends carries the
\* status the step leaves stored for the session, which is what a session/get
\* right after it reports
C37_StatusChangedIsStored ==
  [][\A c \in Clients : \A f \in StatusChanges(sent', c) :
       /\ f.sessionId \in DOMAIN sessions'
       /\ f.status = sessions'[f.sessionId].status]_vars

\* the agent of a cancelled session has exited: its subscriber was told that
\* the session is exited, and the stored status is completed
C37_Witness ==
  \E c \in Clients : \E f \in StatusChanges(sent, c) :
    /\ f.status = "exited"
    /\ f.exitReason = "process_exit"
    /\ sessions[f.sessionId].status = "completed"
    /\ sessions[f.sessionId].exit_reason = NULL
    /\ SessionGetResult(f.sessionId, 0).session.status = "completed"

\* the notifications among the frames sent to c
Notifications(frames, c) ==
  {frames[c][i] : i \in {j \in 1..Len(frames[c]) : frames[c][j].kind = "notification"}}

\* a step appends to the log of s only when it handles a prompt for s or an
\* update of the agent of s
LogIsolated(s) ==
  EventsOf(updates', s) # EventsOf(updates, s) => PromptAccepted(s) \/ UpdateReceived(s)

\* a connection is sent a notification about a session only as a subscriber
\* of that session
PushIsolated(c) ==
  \A f \in Notifications(sent', c) :
    /\ f.method \in {"session/updated", "session/request", "session/status_changed"}
    /\ c \in SubscribersOf(sessionClients', f.sessionId)

\* C38: sessions are isolated: a step appends events only to the log of the
\* session whose agent or prompt it handles, and the session/updated,
\* session/request and session/status_changed notifications about a session
\* go only to the connections subscribed to that session
C38_SessionsIsolated ==
  [][/\ \A s \in SessionIds : LogIsolated(s)
     /\ \A s \in SessionIds : \A o \in SessionIds \ {s} :
          PromptAccepted(s) \/ UpdateReceived(s) => EventsOf(updates', o) = EventsOf(updates, o)
     /\ \A c \in Clients : PushIsolated(c)]_vars

\* each session has its own subscriber and its own events; the subscriber of
\* one session was just sent a notification about it and the other nothing
C38_Witness ==
  \E a \in Clients : \E b \in Clients \ {a} :
    /\ SubscribersOf(sessionClients, 1) = {a}
    /\ SubscribersOf(sessionClients, 2) = {b}
    /\ EventsOf(updates, 1) # {}
    /\ EventsOf(updates, 2) # {}
    /\ Notifications(sent, a) # {}
    /\ sent[b] = <<>>

\* the buffer of a session holds at most MAX_BUFFER_SIZE entries, and their
\* seq values are consecutive and end at nextSeq - 1
BufferInOrder(st) ==
  LET entries == st.messageBuffer IN
  /\ Len(entries) <= MAX_BUFFER_SIZE
  /\ Len(entries) <= st.nextSeq
  /\ \A i \in 1..Len(entries) : entries[i].seq = st.nextSeq - Len(entries) + i - 1

\* a step that buffers messages gives each the next seq, appends them in
\* that order and drops entries from the head only, as many as exceed the cap
BufferedNext(old, new) ==
  LET added == new.nextSeq - old.nextSeq
      all == old.messageBuffer \o
               [i \in 1..added |-> new.messageBuffer[Len(new.messageBuffer) - added + i]]
      dropped == Len(all) - Len(new.messageBuffer)
  IN /\ added >= 0
     /\ added <= Len(new.messageBuffer)
     /\ \A i \in 1..added :
          new.messageBuffer[Len(new.messageBuffer) - added + i].seq = old.nextSeq + i - 1
     /\ dropped >= 0
     /\ dropped = (IF Len(all) > MAX_BUFFER_SIZE THEN Len(all) - MAX_BUFFER_SIZE ELSE 0)
     /\ new.messageBuffer = SubSeq(all, dropped + 1, Len(all))

\* C39: in the buffered revision the message buffer of a session never holds
\* more than MAX_BUFFER_SIZE entries, its entries carry consecutive seq values
\* that end at nextSeq - 1, every buffered message gets the next seq, and
\* past the cap only the oldest entry is dropped for each new one
C39_BufferBoundedConsecutive ==
  /\ [](\A s \in DOMAIN sessionStates : BufferInOrder(sessionStates[s]))
  /\ [][\A s \in DOMAIN sessionStates :
          s \in DOMAIN sessionStates' /\ BufferedNext(sessionStates[s], sessionStates'[s])]_vars

\* the buffer is full and its oldest entry has been dropped
C39_Witness ==
  \E s \in DOMAIN sessionStates :
    /\ Len(sessionStates[s].messageBuffer) = MAX_BUFFER_SIZE
    /\ sessionStates[s].messageBuffer[1].seq > 0
    /\ sessionStates[s].nextSeq = MAX_BUFFER_SIZE + 1

\* ---- C40
\* the frames among frames that bufferAndSend stamped for session s
SeqFrames(frames, s) ==
  LET Test(f) == "seq" \in DOMAIN f /\ f.sessionId = s
  IN SelectSeq(frames, Test)

\* entry is what the buffer holds under the seq of frame f
EntryOf(entries, f, s) ==
  \E j \in 1..Len(entries) :
    entries[j].seq = f.seq /\ f = Stamped(entries[j].msg, s, entries[j].seq)

\* the messages after lastSeq are all still in the buffer of s
Kept(s, lastSeq) ==
  /\ lastSeq < sessionStates[s].nextSeq
  /\ sessionStates[s].nextSeq - 1 - lastSeq <= Len(sessionStates[s].messageBuffer)

\* a session/sync of c makes c the current client and answers with the
\* messages lastSeq + 1 .. nextSeq - 1, each once and in that order
SyncReplays ==
  \A c \in Clients, n \in RequestIds, s \in OneSession, lastSeq \in LastSeqs :
    (handleSessionSync(c, n, s, lastSeq) /\ s \in DOMAIN sessionStates /\ Kept(s, lastSeq))
      => /\ sessionStates'[s].currentClient = c
         /\ Len(sent'[c]) = 1
         /\ sent'[c][1].kind = "result"
         /\ LET ms == sent'[c][1].body.messages IN
              /\ Len(ms) = sessionStates[s].nextSeq - 1 - lastSeq
              /\ \A i \in 1..Len(ms) :
                   /\ ms[i].seq = lastSeq + i
                   /\ EntryOf(sessionStates[s].messageBuffer, ms[i], s)

\* a step that buffers messages pushes them, each once and in seq order, to
\* the open connection that holds the session before and after it ...
PushedToHolder ==
  \A s \in DOMAIN sessionStates :
    LET c == sessionStates[s].currentClient
        pushed == SeqFrames(sent'[c], s)
    IN (c # NULL /\ readyState[c] = "OPEN" /\ sessionStates'[s].currentClient = c)
         => /\ Len(pushed) = sessionStates'[s].nextSeq - sessionStates[s].nextSeq
            /\ \A i \in 1..Len(pushed) :
                 /\ pushed[i].seq = sessionStates[s].nextSeq + i - 1
                 /\ EntryOf(sessionStates'[s].messageBuffer, pushed[i], s)

\* ... and to no other connection
NotPushedToOthers ==
  \A s \in DOMAIN sessionStates :
    \A d \in Clients \ {sessionStates[s].currentClient} : SeqFrames(sent'[d], s) = <<>>

\* C40: in the buffered revision, a client that syncs with the highest seq it
\* has seen and remains the current client gets every later message exactly
\* once and in seq order from the sync reply and the pushes that follow, as
\* long as the buffer still held them; a message sent while another client
\* holds the session is never pushed to it
C40_SyncThenPushesComplete ==
  [][SyncReplays /\ PushedToHolder /\ NotPushedToOthers]_vars

\* ws2 took the session with a sync that replayed the messages from seq 1 on
C40_Witness ==
  /\ Len(sent["ws2"]) = 1
  /\ sent["ws2"][1].kind = "result"
  /\ "messages" \in DOMAIN sent["ws2"][1].body
  /\ Len(sent["ws2"][1].body.messages) > 0
  /\ sent["ws2"][1].body.messages[1].seq = 1
  /\ 1 \in DOMAIN sessionStates
  /\ sessionStates[1].currentClient = "ws2"

TypeOK ==
  /\ DOMAIN sessions \subseteq SessionIds
  /\ agentProcesses \subseteq SessionIds

====
